---- MODULE Spec2Model ----
(***************************************************************************)
(* Model of the render engine of xray_projection_render (main.go, api.go). *)
(*                                                                         *)
(* One process is modelled.  It is entered either through main (the        *)
(* command line, one render per process) or through RenderProjections      *)
(* (the embeddable entry point, several renders per process).  The main    *)
(* goroutine runs render; every pixel of an image is computed by its own   *)
(* goroutine (computePixel), joined by a sync.WaitGroup.                   *)
(*                                                                         *)
(* Lengths along a ray are integers: one unit is the fine integration      *)
(* step of the hierarchical method at DS = RefineFactor units.  The loaded *)
(* object is abstracted by its density profile along each ray.             *)
(***************************************************************************)
EXTENDS Integers, Sequences, FiniteSets, TLC

\* ------------------------------------------------------------------ bounds
MaxRes == 2        \* resolutions 1..MaxRes
MaxImages == 2     \* num_images in 0..MaxImages
MaxModulo == 2     \* jobs_modulo in 0..MaxModulo, job_num in 0..MaxModulo
MaxCalls == 2      \* RenderProjections invocations per process
MaxFrames == 2     \* frame records kept by the model
HitRays == 2       \* rays (in dispatch order) that pass through the object
MaxShardImages == 6 \* num_images of a workload split over parallel jobs
GridHalf == 2      \* probe points have coordinates in -GridHalf..GridHalf
MaxChildren == 2   \* children of an object collection
MaxCoarse == 4     \* coarse steps in the scan window of a probed ray
MaxChain == 2      \* children of a composed deformation

\* ------------------------------------------------------- program constants
cube_half_diagonal == 40   \* 1.74 world units, in model length units
RefineFactor == 10         \* ds := DS / 10.0
CameraR == 120             \* distance camera - scene centre (--R)
density_multiplier == 1    \* var density_multiplier = 1.0
flat_field == 0            \* var flat_field = 0.0

\* --------------------------------------------------------- modelled inputs
\* Two objects centred on the scene centre: a sphere inside the scan window
\* and a cube that reaches beyond both of its ends; one rigid deformation.
SphereRadius == 30
CubeSide == 300
RigidShift == 40           \* displacement along the ray
UnitIntensity == 1000      \* fixed-point image of intensity 1.0
AngleUnit == 420           \* angles are in 1/AngleUnit of a degree

NilObj == "nil"
Objects == {"sphere", "cube"}
NoProbe == [st |-> "none"]
NoShard == [n |-> 0, m |-> 0, out_of_plane |-> FALSE, job |-> <<>>]
NoPar == [res |-> 0, num_images |-> 0, jobs_modulo |-> 0, job_num |-> 0, ds |-> 0,
          time_label |-> 0]

VARIABLES
    entry,                \* "cli" or "api": how the process is entered
    pc,                   \* position of the main goroutine
    requested,            \* the integration method named by the caller
    par,                  \* arguments of the current render call
    calls,                \* number of RenderProjections invocations so far
    results,              \* what each RenderProjections invocation returned
    lat, df,              \* global lists: loaded objects, loaded deformations
    integrate,            \* global: selected integration function
    warned_clipping_min,  \* global one-shot flags
    warned_clipping_max,
    img,                  \* the image buffer of the current render
    i_img,                \* loop variable of the image loop
    frames,               \* transform_params.Frames
    dispatched,           \* number of pixel goroutines started for this image
    wg,                   \* the WaitGroup counter
    tasks,                \* running pixel goroutines
    warnMin, warnMax,     \* log: warnings emitted by the current render
    writers, wcount,      \* log: writes to img for the current image
    manifest,             \* log: pose manifests written by the current render
    shard,                \* a workload split over independent parallel jobs
    probe                 \* one evaluation of a function of the program

rvars == <<entry, pc, requested, par, calls, results, lat, df, integrate,
          warned_clipping_min, warned_clipping_max, img, i_img, frames,
          dispatched, wg, tasks, warnMin, warnMax, writers, wcount, manifest>>
vars == <<rvars, shard, probe>>

globals == <<lat, df, integrate, warned_clipping_min, warned_clipping_max>>
locals == <<img, i_img, frames, dispatched, wg, tasks, writers, wcount>>
logs == <<warnMin, warnMax, manifest>>

\* ------------------------------------------------------------ pure helpers
Cells(r) == (0 .. r - 1) \X (0 .. r - 1)
RayIndex(i, j, r) == i * r + j
ZeroImg(r) == [c \in Cells(r) |-> 0]
smin == CameraR - cube_half_diagonal
smax == CameraR + cube_half_diagonal

Abs(x) == IF x < 0 THEN -x ELSE x

\* Density of a loaded object (rho = 1) at distance s from the eye on ray k.
\* The first HitRays rays pass through the scene centre, which is at distance
\* CameraR; the other rays miss the object.
\* Sphere.Density: r_2 < Radius*Radius.  Box.Density: |x - c| < 0.5*side.
ObjDensity(obj, k, s) ==
    IF k >= HitRays THEN 0
    ELSE IF obj = "sphere"
    THEN IF (s - CameraR) * (s - CameraR) < SphereRadius * SphereRadius THEN 1 ELSE 0
    ELSE IF 2 * Abs(s - CameraR) < CubeSide THEN 1 ELSE 0

\* Sphere.MinFeatureSize: the radius.  Box.MinFeatureSize: 0.1 * min side.
MinFeatureSize(obj) == IF obj = "sphere" THEN SphereRadius ELSE CubeSide \div 10

\* deform: no deformation is the identity, one deformation is applied.
deform(dfl, s) == IF Len(dfl) = 0 THEN s ELSE s + dfl[1]

\* density: deform the coordinate, then evaluate the first loaded object and
\* multiply by density_multiplier.
density(latl, dfl, k, s) == ObjDensity(latl[1], k, deform(dfl, s)) * density_multiplier

\* What an integrator sees of the scene along one ray: the density of the
\* object at each position of the scan window, the multiplier, the flat field.
RayDensity(r, s) == r.field[s] * r.multiplier

\* The ray of pixel k through the loaded scene.
SceneRay(latl, dfl, k) ==
    [field |-> [s \in smin .. smax |-> ObjDensity(latl[1], k, deform(dfl, s))],
     multiplier |-> density_multiplier, flat_field |-> flat_field,
     smin |-> smin, smax |-> smax]

\* math.Exp(-T) in fixed point: positive, decreasing in T, Exp(0) = 1.0.
Exp(T) == IF T >= 0 THEN UnitIntensity \div (1 + T) ELSE UnitIntensity * (1 - T)

\* integrate_along_ray: for s := smin; s < smax; s += ds { T += density*ds }
\* acc.T is the sum, acc.n the number of calls of density.
RECURSIVE SimpleLoop(_, _, _, _)
SimpleLoop(r, step, s, acc) ==
    IF s < r.smax
    THEN SimpleLoop(r, step, s + step,
                    [T |-> acc.T + RayDensity(r, s) * step, n |-> acc.n + 1])
    ELSE acc

SimpleSumFromSecond(r, step) ==
    SimpleLoop(r, step, r.smin + step, [T |-> r.flat_field, n |-> 0])

\* T := flat_field
SimpleSum(r, step) == SimpleLoop(r, step, r.smin, [T |-> r.flat_field, n |-> 0])

integrate_along_ray(r, step) == Exp(SimpleSum(r, step).T)

\* inner loop of integrate_hierarchical: for left < right { T += density*ds }
RECURSIVE FineLoop(_, _, _, _, _)
FineLoop(r, fine, left, right, T) ==
    IF left < right
    THEN FineLoop(r, fine, left + fine, right, T + RayDensity(r, left) * fine)
    ELSE T

RefinedTailDropped(rho, fine) == 0

\* T += rho * ds // reuse rho from right
RefinedTail(rho, fine) == rho * fine

\* outer loop of integrate_hierarchical: for right <= smax { ... }
RECURSIVE HierLoop(_, _, _, _, _, _)
HierLoop(r, DS, left, right, prev_rho, T) ==
    IF right <= r.smax
    THEN LET rho == RayDensity(r, right)
             fine == DS \div RefineFactor
             T1 == IF (rho = 0) # (prev_rho = 0)
                   THEN FineLoop(r, fine, left + fine, right, T) + RefinedTail(rho, fine)
                   ELSE T + rho * DS
         IN  HierLoop(r, DS, right, right + DS, rho, T1)
    ELSE T

HierSumNoFlatField(r, DS) == HierLoop(r, DS, r.smin, r.smin + DS, 0, 0)

\* left := smin; right := smin + DS; prev_rho := 0.0; T := flat_field
HierSum(r, DS) == HierLoop(r, DS, r.smin, r.smin + DS, 0, r.flat_field)

integrate_hierarchical(r, DS) == Exp(HierSum(r, DS))

IntegrateOnceWarned(method, r, step) ==
    IF warned_clipping_min \/ warned_clipping_max THEN UnitIntensity
    ELSE IF method = "simple" THEN integrate_along_ray(r, step)
    ELSE integrate_hierarchical(r, step)

\* The value computePixel stores: integrate(origin, direction, ds, smin, smax).
Integrate(method, r, step) ==
    IF method = "simple" THEN integrate_along_ray(r, step)
    ELSE integrate_hierarchical(r, step)

PixelCellRowOnly(i, j) == <<i, 0>>

\* The buffer cell computePixel(img, i, j, ...) assigns: img[i][j].
PixelCell(i, j) == <<i, j>>

WaitNoBarrier(counter) == TRUE

\* wg.Wait() returns when the counter is zero.
WaitReturns(counter) == counter = 0

\* for ...; i_img < num_images; ...
LoopContinues(i, n) == i < n

NextImageIndexOne(i, m) == i + 1

\* i_img += jobs_modulo
NextImageIndex(i, m) == i + m

DropFrame(fr, rec) == fr

\* transform_params.Frames = append(transform_params.Frames, ...); the model
\* keeps the first MaxFrames records of a render.
AppendFrame(fr, rec) == IF Len(fr) < MaxFrames THEN Append(fr, rec) ELSE fr

CameraPoseWrapped(i, n) ==
    [th |-> (i * ((360 * AngleUnit) \div n) + 90 * AngleUnit) % (360 * AngleUnit),
     phi |-> 90 * AngleUnit]

\* dth := 360.0 / num_images; th = i_img*dth + 90.0; phi = math.Pi / 2.0.
\* The camera-to-world matrix is a function of the two angles (R is fixed).
CameraPose(i, n) ==
    [th |-> i * ((360 * AngleUnit) \div n) + 90 * AngleUnit, phi |-> 90 * AngleUnit]

\* out_of_plane: z := rand.Float64()*2 - 1; phi = math.Acos(z), an angle in
\* (0, 180] degrees of which three values are kept.
RandomPolar == {45 * AngleUnit, 90 * AngleUnit, 180 * AngleUnit}

FrameRecordFirstPose(i, n, px, tl) ==
    [image |-> i, pixels |-> px, matrix |-> CameraPose(0, n), time |-> tl]

\* OneFrameParams{FilePath: ..., TransformMatrix: transform_matrix, Time:
\* time_label}; transform_matrix is allocated anew in every iteration.
FrameRecord(i, n, px, tl) ==
    [image |-> i, pixels |-> px, matrix |-> CameraPose(i, n), time |-> tl]

KeepLat(l) == l

\* RenderProjections: lat = []objects.Object{}; df = []deformations.Deformation{}
ResetLat(l) == <<>>
ResetDf(d) == <<>>

\* ------------------------------------------------------------------ inputs
Params == [res : 1 .. MaxRes, num_images : 0 .. MaxImages,
           jobs_modulo : 0 .. MaxModulo, job_num : 0 .. MaxModulo - 1,
           ds : {-1, 0, SphereRadius \div 3}, time_label : {0, 1}]
Integrations == {"simple", "hierarchical", "other"}

\* What the input path names: a loadable object, a file that cannot be read,
\* a file that does not describe an object, a path of fewer than 4 characters.
InputFiles == Objects \cup {"missing", "malformed", "short"}
\* The same for the deformation path; "none" is the empty path.
DeformationFiles == {"none", "rigid", "missing", "malformed", "short"}

\* ------------------------------------------------------------------- state
Init ==
    /\ entry \in {"cli", "api"}
    /\ pc = IF entry = "cli" THEN "start" ELSE "idle"
    /\ requested = "none"
    /\ par = NoPar
    /\ calls = 0
    /\ results = <<>>
    /\ lat = <<>>
    /\ df = <<>>
    /\ integrate = "hierarchical"
    /\ warned_clipping_min = FALSE
    /\ warned_clipping_max = FALSE
    /\ img = <<>>
    /\ i_img = 0
    /\ frames = <<>>
    /\ dispatched = 0
    /\ wg = 0
    /\ tasks = {}
    /\ warnMin = 0
    /\ warnMax = 0
    /\ writers = {}
    /\ wcount = <<>>
    /\ manifest = 0
    /\ shard = NoShard
    /\ probe = NoProbe

\* The locals of render are gone once render has returned or unwound.
LocalsReset ==
    /\ par' = IF entry = "cli" THEN par ELSE NoPar
    /\ img' = <<>>
    /\ i_img' = 0
    /\ frames' = <<>>
    /\ dispatched' = 0
    /\ wg' = 0
    /\ tasks' = {}
    /\ writers' = {}
    /\ wcount' = <<>>

\* log.Fatal().Msg(...): os.Exit(1).
Fatal == pc' = "exited" /\ UNCHANGED <<results, requested>>

\* A panic on the main goroutine.  Under main it ends the process; under
\* RenderProjections the deferred recover() swallows it and the function
\* returns the zero value of its result, a nil *C.char.
Panic ==
    IF entry = "cli"
    THEN pc' = "crashed" /\ UNCHANGED <<results, requested>>
    ELSE pc' = "idle" /\ results' = Append(results, "null") /\ requested' = "none"

\* render returns normally.
Return ==
    IF entry = "cli"
    THEN pc' = "done" /\ UNCHANGED <<results, requested>>
    ELSE pc' = "idle" /\ results' = Append(results, "success") /\ requested' = "none"

\* ----------------------------------------------------------- entry points
\* main: the cli Action, up to the call of render.
main ==
    /\ pc = "start"
    /\ entry = "cli"
    /\ \E p \in Params, m \in Integrations :
        /\ par' = p
        /\ requested' = m
        /\ IF m \in {"simple", "hierarchical"}
           THEN integrate' = m /\ pc' = "render"
           ELSE integrate' = integrate /\ pc' = "exited"
    /\ UNCHANGED <<entry, calls, results, lat, df, warned_clipping_min,
                   warned_clipping_max>>
    /\ UNCHANGED locals
    /\ UNCHANGED <<logs, shard, probe>>

\* RenderProjections, up to the call of render: the parameters that do not
\* parse return an error result; otherwise the globals are set and reset.
RenderProjections ==
    /\ pc = "idle"
    /\ entry = "api"
    /\ calls < MaxCalls
    /\ calls' = calls + 1
    /\ \/ /\ results' = Append(results, "error")
          /\ UNCHANGED <<pc, requested, par, warnMin, warnMax, manifest>>
          /\ UNCHANGED globals
       \/ \E p \in Params, m \in Integrations :
            /\ par' = p
            /\ requested' = m
            /\ integrate' = IF m = "simple" THEN "simple" ELSE "hierarchical"
            /\ lat' = ResetLat(lat)
            /\ df' = ResetDf(df)
            /\ warned_clipping_max' = FALSE
            /\ warned_clipping_min' = FALSE
            /\ pc' = "render"
            /\ warnMin' = 0
            /\ warnMax' = 0
            /\ manifest' = 0
            /\ UNCHANGED results
    /\ UNCHANGED <<entry, shard, probe>>
    /\ UNCHANGED locals

\* ------------------------------------------------------------------ render
\* render, from its first line to the head of the image loop: load_object,
\* the check of len(lat), load_deformation, "set or compute ds", the buffer.
\* log.Fatal().Err(err) without Msg neither logs nor exits, so an unreadable
\* file is treated like an empty one; fn[len(fn)-4:] panics on a short path.
render_prologue ==
    /\ pc = "render"
    /\ \E inp \in InputFiles, dfile \in DeformationFiles :
        LET obj == IF inp \in Objects THEN inp ELSE NilObj
            lat1 == Append(lat, obj)
            df1 == IF dfile = "rigid" THEN Append(df, RigidShift) ELSE df
        IN  IF inp = "short"
            THEN Panic /\ LocalsReset /\ UNCHANGED <<lat, df>>
            ELSE IF Len(lat1) # 1
            THEN Fatal /\ lat' = lat1 /\ UNCHANGED <<par, df>> /\ UNCHANGED locals
            ELSE IF dfile = "short"
            THEN Panic /\ LocalsReset /\ lat' = lat1 /\ UNCHANGED df
            ELSE IF dfile \in {"missing", "malformed"}
            THEN Fatal /\ lat' = lat1 /\ UNCHANGED <<par, df>> /\ UNCHANGED locals
            ELSE IF par.ds < 0 /\ obj = NilObj
            THEN Panic /\ LocalsReset /\ lat' = lat1 /\ df' = df1
            ELSE /\ lat' = lat1
                 /\ df' = df1
                 /\ par' = [par EXCEPT !.ds = IF par.ds < 0
                                               THEN MinFeatureSize(obj) \div 3
                                               ELSE par.ds]
                 /\ img' = ZeroImg(par.res)
                 /\ i_img' = par.job_num
                 /\ frames' = <<>>
                 /\ pc' = "loop"
                 /\ UNCHANGED <<results, requested, dispatched, wg, tasks,
                                writers, wcount>>
    /\ UNCHANGED <<entry, calls, integrate, warned_clipping_min,
                   warned_clipping_max>>
    /\ UNCHANGED <<logs, shard, probe>>

\* for i_img := job_num; i_img < num_images; ... : the loop test, and for an
\* image to render the zeroing of the buffer and the camera set-up.
LoopHead ==
    /\ pc = "loop"
    /\ IF LoopContinues(i_img, par.num_images)
       THEN /\ img' = ZeroImg(par.res)
            /\ dispatched' = 0
            /\ writers' = {}
            /\ wcount' = ZeroImg(par.res)
            /\ pc' = "dispatch"
       ELSE /\ pc' = "manifest"
            /\ UNCHANGED <<img, dispatched, writers, wcount>>
    /\ UNCHANGED <<entry, requested, par, calls, results, i_img, frames, wg, tasks>>
    /\ UNCHANGED globals
    /\ UNCHANGED <<logs, shard, probe>>

\* The stage at which a pixel goroutine next touches state shared with the
\* other goroutines.  The density at a window end is read from lat and df,
\* which no goroutine changes; `density > 0 && !warned` reads the flag only
\* when the density is positive.
LoopStage == IF par.ds = 0 THEN "spin" ELSE "integrate"

AfterMin(k) == IF density(lat, df, k, smax) > 0 THEN "checkmax" ELSE LoopStage

FirstStage(k) ==
    IF lat[1] = NilObj THEN "panic"
    ELSE IF integrate = "simple" THEN LoopStage
    ELSE IF density(lat, df, k, smin) > 0 THEN "checkmin"
    ELSE AfterMin(k)

\* One pass of the pixel loops: wg.Add(1); go computePixel(img, i, j, ...).
Dispatch ==
    /\ pc = "dispatch"
    /\ LET i == dispatched \div par.res
           j == dispatched % par.res
       IN  tasks' = tasks \cup {[i |-> i, j |-> j, im |-> i_img,
                                 st |-> FirstStage(RayIndex(i, j, par.res))]}
    /\ wg' = wg + 1
    /\ dispatched' = dispatched + 1
    /\ pc' = IF dispatched + 1 = par.res * par.res THEN "wait" ELSE "dispatch"
    /\ UNCHANGED <<entry, requested, par, calls, results, img, i_img, frames, writers, wcount>>
    /\ UNCHANGED globals
    /\ UNCHANGED <<logs, shard, probe>>

\* wg.Wait()
Wait ==
    /\ pc = "wait"
    /\ WaitReturns(wg)
    /\ pc' = "assemble"
    /\ UNCHANGED <<entry, requested, par, calls, results>>
    /\ UNCHANGED globals
    /\ UNCHANGED locals
    /\ UNCHANGED <<logs, shard, probe>>

\* The rest of the loop body: the buffer is converted and saved, the frame
\* record is appended, and i_img += jobs_modulo.
Assemble ==
    /\ pc = "assemble"
    /\ frames' = AppendFrame(frames, FrameRecord(i_img, par.num_images, img,
                                                par.time_label))
    /\ i_img' = NextImageIndex(i_img, par.jobs_modulo)
    /\ pc' = "loop"
    /\ UNCHANGED <<entry, requested, par, calls, results, img, dispatched, wg, tasks,
                   writers, wcount>>
    /\ UNCHANGED globals
    /\ UNCHANGED <<logs, shard, probe>>

\* After the loop: the pose manifest and object.json are written, render
\* returns.  A failed write is fatal; lat[0].ToMap() panics on a nil object.
WriteManifest ==
    /\ pc = "manifest"
    /\ \E written \in BOOLEAN, saved \in BOOLEAN :
        IF ~written
        THEN Fatal /\ UNCHANGED <<par, manifest>> /\ UNCHANGED locals
        ELSE /\ manifest' = manifest + 1
             /\ IF lat[1] = NilObj THEN Panic /\ LocalsReset
                ELSE IF ~saved THEN Fatal /\ UNCHANGED par /\ UNCHANGED locals
                ELSE Return /\ LocalsReset
    /\ UNCHANGED <<entry, calls, warnMin, warnMax, shard, probe>>
    /\ UNCHANGED globals

\* ------------------------------------------------------- pixel goroutines
Alive == pc \notin {"exited", "crashed"}

Move(t, stage) == tasks' = (tasks \ {t}) \cup {[t EXCEPT !.st = stage]}

\* integrate_hierarchical: density(smin) > 0 && !warned_clipping_min
CheckClipMin(t) ==
    /\ Alive
    /\ t.st = "checkmin"
    /\ Move(t, IF ~warned_clipping_min THEN "warnmin"
               ELSE AfterMin(RayIndex(t.i, t.j, par.res)))
    /\ UNCHANGED <<entry, pc, requested, par, calls, results, img, i_img, frames,
                   dispatched, wg, writers, wcount>>
    /\ UNCHANGED globals
    /\ UNCHANGED <<logs, shard, probe>>

\* log.Warn().Msg("Clipping at smin detected"); warned_clipping_min = true
WarnClipMin(t) ==
    /\ Alive
    /\ t.st = "warnmin"
    /\ warnMin' = warnMin + 1
    /\ warned_clipping_min' = TRUE
    /\ Move(t, AfterMin(RayIndex(t.i, t.j, par.res)))
    /\ UNCHANGED <<entry, pc, requested, par, calls, results, img, i_img, frames,
                   dispatched, wg, writers, wcount>>
    /\ UNCHANGED <<lat, df, integrate, warned_clipping_max, warnMax, manifest, shard, probe>>

\* integrate_hierarchical: density(smax) > 0 && !warned_clipping_max
CheckClipMax(t) ==
    /\ Alive
    /\ t.st = "checkmax"
    /\ Move(t, IF ~warned_clipping_max THEN "warnmax" ELSE LoopStage)
    /\ UNCHANGED <<entry, pc, requested, par, calls, results, img, i_img, frames,
                   dispatched, wg, writers, wcount>>
    /\ UNCHANGED globals
    /\ UNCHANGED <<logs, shard, probe>>

\* log.Warn().Msg("Clipping at smax detected"); warned_clipping_max = true
WarnClipMax(t) ==
    /\ Alive
    /\ t.st = "warnmax"
    /\ warnMax' = warnMax + 1
    /\ warned_clipping_max' = TRUE
    /\ Move(t, LoopStage)
    /\ UNCHANGED <<entry, pc, requested, par, calls, results, img, i_img, frames,
                   dispatched, wg, writers, wcount>>
    /\ UNCHANGED <<lat, df, integrate, warned_clipping_min, warnMin, manifest, shard, probe>>

\* computePixel: img[i][j] = integrate(...), the integration loop included.
\* With ds = 0 the loop never ends: a task at stage "spin" takes no step.
ComputePixel(t) ==
    /\ Alive
    /\ t.st = "integrate"
    /\ LET c == PixelCell(t.i, t.j)
           v == Integrate(integrate, SceneRay(lat, df, RayIndex(t.i, t.j, par.res)),
                          par.ds)
       IN  /\ img' = [img EXCEPT ![c] = v]
           /\ writers' = writers \cup {[by |-> <<t.i, t.j>>, cell |-> c]}
           /\ wcount' = [wcount EXCEPT ![c] = @ + 1]
    /\ Move(t, "written")
    /\ UNCHANGED <<entry, pc, requested, par, calls, results, i_img, frames, dispatched, wg>>
    /\ UNCHANGED globals
    /\ UNCHANGED <<logs, shard, probe>>

\* computePixel: defer wg.Done()
PixelDone(t) ==
    /\ Alive
    /\ t.st = "written"
    /\ wg' = wg - 1
    /\ tasks' = tasks \ {t}
    /\ UNCHANGED <<entry, pc, requested, par, calls, results, img, i_img, frames,
                   dispatched, writers, wcount>>
    /\ UNCHANGED globals
    /\ UNCHANGED <<logs, shard, probe>>

\* The first density call of a pixel goroutine on a nil object: a panic in a
\* goroutine other than the one that recovers ends the process.
PixelPanic(t) ==
    /\ Alive
    /\ t.st = "panic"
    /\ pc' = "crashed"
    /\ UNCHANGED <<entry, requested, par, calls, results>>
    /\ UNCHANGED globals
    /\ UNCHANGED locals
    /\ UNCHANGED <<logs, shard, probe>>

TaskStep(t) ==
    \/ CheckClipMin(t)
    \/ WarnClipMin(t)
    \/ CheckClipMax(t)
    \/ WarnClipMax(t)
    \/ ComputePixel(t)
    \/ PixelDone(t)
    \/ PixelPanic(t)

MainStep ==
    \/ main
    \/ RenderProjections
    \/ render_prologue
    \/ LoopHead
    \/ Dispatch
    \/ Wait
    \/ Assemble
    \/ WriteManifest

Next ==
    \/ main
    \/ RenderProjections
    \/ render_prologue
    \/ LoopHead
    \/ Dispatch
    \/ Wait
    \/ Assemble
    \/ WriteManifest
    \/ \E t \in tasks : CheckClipMin(t)
    \/ \E t \in tasks : WarnClipMin(t)
    \/ \E t \in tasks : CheckClipMax(t)
    \/ \E t \in tasks : WarnClipMax(t)
    \/ \E t \in tasks : ComputePixel(t)
    \/ \E t \in tasks : PixelDone(t)
    \/ \E t \in tasks : PixelPanic(t)

Spec == Init /\ [][Next]_vars

\* ------------------------------------------------- jobs splitting a workload
\* "Splitting of long jobs": jobs_modulo = m independent processes render the
\* same num_images = n, job j with job_num = j.  Each job runs render's image
\* loop; of an iteration only the loop variable and the frame list are kept.
ShardInputs ==
    {[n |-> n, m |-> m, out_of_plane |-> o,
      job |-> [j \in 0 .. m - 1 |->
                [i_img |-> j, frames |-> <<>>, angles |-> <<>>, pc |-> "loop"]]] :
        n \in 0 .. MaxShardImages, m \in 1 .. MaxModulo, o \in BOOLEAN}

ShardInit ==
    /\ entry = "cli"
    /\ pc = "start"
    /\ requested = "none"
    /\ par = NoPar
    /\ calls = 0
    /\ results = <<>>
    /\ lat = <<>>
    /\ df = <<>>
    /\ integrate = "hierarchical"
    /\ warned_clipping_min = FALSE
    /\ warned_clipping_max = FALSE
    /\ img = <<>>
    /\ i_img = 0
    /\ frames = <<>>
    /\ dispatched = 0
    /\ wg = 0
    /\ tasks = {}
    /\ warnMin = 0
    /\ warnMax = 0
    /\ writers = {}
    /\ wcount = <<>>
    /\ manifest = 0
    /\ shard \in ShardInputs
    /\ probe = NoProbe

\* One iteration of job j's image loop: the camera angles of image i_img are
\* computed, the image is rendered, its frame record appended, and
\* i_img += jobs_modulo.
ShardRender(j) ==
    /\ shard.job[j].pc = "loop"
    /\ LoopContinues(shard.job[j].i_img, shard.n)
    /\ \E phi \in IF shard.out_of_plane THEN RandomPolar
                    ELSE {CameraPose(shard.job[j].i_img, shard.n).phi} :
        shard' = [shard EXCEPT
            !.job[j].frames = Append(@, shard.job[j].i_img),
            !.job[j].angles = Append(@, [CameraPose(shard.job[j].i_img, shard.n)
                                            EXCEPT !.phi = phi]),
            !.job[j].i_img = NextImageIndex(@, shard.m)]
    /\ UNCHANGED <<rvars, probe>>

\* Job j's loop test fails: the job writes its manifest and ends.
ShardFinish(j) ==
    /\ shard.job[j].pc = "loop"
    /\ ~LoopContinues(shard.job[j].i_img, shard.n)
    /\ shard' = [shard EXCEPT !.job[j].pc = "done"]
    /\ UNCHANGED <<rvars, probe>>

ShardNext ==
    \/ \E j \in DOMAIN shard.job : ShardRender(j)
    \/ \E j \in DOMAIN shard.job : ShardFinish(j)

ShardSpec == ShardInit /\ [][ShardNext]_vars

\* ------------------------------------------------------------ density fields
\* The objects of package objects, evaluated at points of an integer grid.
\* A length of 1.0 is WorldUnit grid steps; a density of 1.0 is DensityUnit,
\* the common denominator of the trilinear weights of a voxel grid.
WorldUnit == 2
DensityUnit == (2 * WorldUnit) * (2 * WorldUnit) * (2 * WorldUnit)

Dot(a, b) == a[1] * b[1] + a[2] * b[2] + a[3] * b[3]
VSub(a, b) == <<a[1] - b[1], a[2] - b[2], a[3] - b[3]>>
Det3(a, b, c) ==
    a[1] * (b[2] * c[3] - b[3] * c[2]) - a[2] * (b[1] * c[3] - b[3] * c[1])
        + a[3] * (b[1] * c[2] - b[2] * c[1])

SphereDensityNegatedOutside(o, p) ==
    LET d == VSub(p, o.center)
    IN  IF Dot(d, d) < o.radius * o.radius THEN o.rho ELSE -o.rho

\* Sphere.Density: r_2 < Radius*Radius
SphereDensity(o, p) ==
    LET d == VSub(p, o.center)
    IN  IF Dot(d, d) < o.radius * o.radius THEN o.rho ELSE 0

\* Box.Density: |x - c| < 0.5*side on every axis
BoxDensity(o, p) ==
    IF \A a \in 1 .. 3 : 2 * Abs(p[a] - o.center[a]) < o.sides[a] THEN o.rho ELSE 0

\* Cube.Density: the density of the Box built by Cube.FromMap
CubeDensity(o, p) ==
    BoxDensity([center |-> o.center, sides |-> <<o.side, o.side, o.side>>,
                rho |-> o.rho], p)

\* Parallelepiped.Density: the coordinates of p - origin in the basis
\* (v0, v1, v2), computed by the inverse matrix, all strictly within (0, 1).
\* A singular basis has the zero matrix for inverse.
InUnitInterval(num, det) ==
    IF det > 0 THEN 0 < num /\ num < det
    ELSE IF det < 0 THEN det < num /\ num < 0
    ELSE FALSE
ParallelepipedDensity(o, p) ==
    LET w == VSub(p, o.origin)
        det == Det3(o.v0, o.v1, o.v2)
    IN  IF /\ InUnitInterval(Det3(w, o.v1, o.v2), det)
           /\ InUnitInterval(Det3(o.v0, w, o.v2), det)
           /\ InUnitInterval(Det3(o.v0, o.v1, w), det)
        THEN o.rho ELSE 0

\* Cylinder.Density: c = w.v / v.v outside [0, 1] gives 0; else the distance
\* d = |w - c*v| from the axis is compared with the radius (p0 # p1).
CylinderDensity(o, p) ==
    LET v == VSub(o.p1, o.p0)
        w == VSub(p, o.p0)
        wv == Dot(w, v)
        vv == Dot(v, v)
    IN  IF wv < 0 \/ wv > vv THEN 0
        ELSE IF o.radius > 0 /\ Dot(w, w) * vv - wv * wv < o.radius * o.radius * vv
        THEN o.rho ELSE 0

\* Gyroid.Density: |sin x cos y + sin y cos z + sin z cos x| < thickness, for
\* a scale at which one grid step is a quarter turn.
SinQ(k) == <<0, 1, 0, -1>>[(k % 4) + 1]
CosQ(k) == SinQ(k + 1)
GyroidDensity(o, p) ==
    LET q == VSub(p, o.center)
        gyroid_value == SinQ(q[1]) * CosQ(q[2]) + SinQ(q[2]) * CosQ(q[3])
                            + SinQ(q[3]) * CosQ(q[1])
    IN  IF Abs(gyroid_value) < o.thickness THEN o.rho ELSE 0

\* VoxelGrid.Density: 0 outside [-1, 1]^3, else the trilinear interpolation
\* of the eight voxels around the point.  The weights are in 1/(2*WorldUnit).
VoxelGridDensity(o, p) ==
    IF \E a \in 1 .. 3 : p[a] < -WorldUnit \/ p[a] > WorldUnit THEN 0
    ELSE LET D == 2 * WorldUnit
             n == <<o.nx, o.ny, o.nz>>
             pos == [a \in 1 .. 3 |-> (p[a] + WorldUnit) * (n[a] - 1)]
             lo == [a \in 1 .. 3 |-> IF pos[a] \div D < 0 THEN 0 ELSE pos[a] \div D]
             hi == [a \in 1 .. 3 |-> IF (pos[a] \div D) + 1 >= n[a] THEN n[a] - 1
                                     ELSE (pos[a] \div D) + 1]
             wt == [a \in 1 .. 3 |-> pos[a] - lo[a] * D]
             V(ix, iy, iz) == o.voxels[iz * o.nx * o.ny + iy * o.nx + ix + 1]
             v00 == V(lo[1], lo[2], lo[3]) * (D - wt[3]) + V(lo[1], lo[2], hi[3]) * wt[3]
             v01 == V(lo[1], hi[2], lo[3]) * (D - wt[3]) + V(lo[1], hi[2], hi[3]) * wt[3]
             v10 == V(hi[1], lo[2], lo[3]) * (D - wt[3]) + V(hi[1], lo[2], hi[3]) * wt[3]
             v11 == V(hi[1], hi[2], lo[3]) * (D - wt[3]) + V(hi[1], hi[2], hi[3]) * wt[3]
             v0 == v00 * (D - wt[2]) + v01 * wt[2]
             v1 == v10 * (D - wt[2]) + v11 * wt[2]
         IN  v0 * (D - wt[1]) + v1 * wt[1]

\* ObjectCollection.Density: if density < 0 { 0 } else if density > 1 { 1 }
Clip(d) == IF d < 0 THEN 0 ELSE IF d > DensityUnit THEN DensityUnit ELSE d

GreedyReturnsNonZero(greedy, rho) == greedy /\ rho # 0

\* ObjectCollection.Density: if oc.GreedyDensEval && rho > 0.0 { return rho }
GreedyReturns(greedy, rho) == greedy /\ rho > 0

TruncatingFold(x, lo, span) ==
    LET t == x - lo
    IN  x - span * (IF t >= 0 THEN t \div span ELSE -((-t) \div span))

\* TessellatedObjColl.Density: x = x - dx*math.Floor((x-l.UC.Xmin)/dx)
Fold(x, lo, span) == x - span * ((x - lo) \div span)

\* x < Xmin || x > Xmax || y < Ymin || ... : the point is outside the box
Outside(b, p) == \E a \in 1 .. 3 : p[a] < b.lo[a] \/ p[a] > b.hi[a]

RECURSIVE Density(_, _)
RECURSIVE CollectionLoop(_, _, _, _)

\* ObjectCollection.Density: the loop over the children, then the clip.
CollectionLoop(oc, p, i, acc) ==
    IF i > Len(oc.objects) THEN Clip(acc)
    ELSE LET rho == Density(oc.objects[i], p)
         IN  IF GreedyReturns(oc.greedy, rho) THEN rho
             ELSE CollectionLoop(oc, p, i + 1, acc + rho)

CollectionDensity(oc, p) == CollectionLoop(oc, p, 1, 0)

\* UnitCell.Density
UnitCellDensity(uc, p) ==
    IF Outside(uc, p) THEN 0 ELSE CollectionDensity(uc.objects, p)

\* TessellatedObjColl.Density
TessellatedDensity(l, p) ==
    IF Outside(l, p) THEN 0
    ELSE UnitCellDensity(l.uc,
            [a \in 1 .. 3 |-> Fold(p[a], l.uc.lo[a], l.uc.hi[a] - l.uc.lo[a])])

\* Object.Density, dispatched on the dynamic type
Density(o, p) ==
    CASE o.type = "sphere" -> SphereDensity(o, p)
      [] o.type = "cube" -> CubeDensity(o, p)
      [] o.type = "box" -> BoxDensity(o, p)
      [] o.type = "cylinder" -> CylinderDensity(o, p)
      [] o.type = "parallelepiped" -> ParallelepipedDensity(o, p)
      [] o.type = "gyroid" -> GyroidDensity(o, p)
      [] o.type = "voxel_grid" -> VoxelGridDensity(o, p)
      [] o.type = "object_collection" -> CollectionDensity(o, p)
      [] o.type = "tessellated_obj_coll" -> TessellatedDensity(o, p)

\* Descriptors the loader accepts.  rho is any number: FromMap checks its
\* type only.
Rhos == {-DensityUnit, DensityUnit, 2 * DensityUnit}
Origin3 == <<0, 0, 0>>
AnalyticPrimitives ==
    UNION {{[type |-> "sphere", center |-> Origin3, radius |-> 2, rho |-> r],
            [type |-> "cube", center |-> <<1, 0, 0>>, side |-> 3, rho |-> r],
            [type |-> "box", center |-> Origin3, sides |-> <<4, 2, 6>>, rho |-> r],
            [type |-> "cylinder", p0 |-> <<-1, 0, 0>>, p1 |-> <<1, 0, 0>>,
             radius |-> 2, rho |-> r],
            [type |-> "parallelepiped", origin |-> <<-2, -2, -2>>,
             v0 |-> <<3, 0, 0>>, v1 |-> <<1, 3, 0>>, v2 |-> <<0, 0, 3>>, rho |-> r],
            [type |-> "gyroid", center |-> Origin3, thickness |-> 1, rho |-> r]} :
           r \in Rhos}
\* Raw voxel files (the field voxels is VoxelGrid.Rho): unsigned samples are
\* in [0, 1], float samples are any.
VoxelGrids ==
    {[type |-> "voxel_grid", nx |-> 2, ny |-> 2, nz |-> 2, voxels |-> v] :
        v \in {<<1, 1, 1, 1, 1, 1, 1, 1>>, <<0, 1, 0, 1, 0, 0, 1, 1>>,
               <<-1, 0, 0, 0, 0, 0, 0, 2>>}}
Primitives == AnalyticPrimitives \cup VoxelGrids

\* The children of the collections: a solid sphere, a smaller sphere of
\* negative density (a hole), a dense box, a cylinder.
Children ==
    {[type |-> "sphere", center |-> Origin3, radius |-> 2, rho |-> DensityUnit],
     [type |-> "sphere", center |-> Origin3, radius |-> 1, rho |-> -DensityUnit],
     [type |-> "box", center |-> Origin3, sides |-> <<4, 2, 6>>, rho |-> 2 * DensityUnit],
     [type |-> "cylinder", p0 |-> <<-1, 0, 0>>, p1 |-> <<1, 0, 0>>,
      radius |-> 2, rho |-> DensityUnit]}
ChildLists == UNION {[1 .. n -> Children] : n \in 0 .. MaxChildren}
Collections ==
    {[type |-> "object_collection", objects |-> l, greedy |-> g] :
        l \in ChildLists, g \in BOOLEAN}
\* UnitCell.FromMap: uc.Objects.GreedyDensEval = true
UnitCells ==
    {[objects |-> [type |-> "object_collection", objects |-> l, greedy |-> TRUE],
      lo |-> b[1], hi |-> b[2]] :
        l \in ChildLists, b \in {<<Origin3, <<2, 2, 2>>>>, <<<<-1, 0, -1>>, <<1, 1, 1>>>>}}
Tessellations ==
    {[type |-> "tessellated_obj_coll", uc |-> u, lo |-> <<-2, -2, -1>>,
      hi |-> <<2, 1, 2>>] : u \in UnitCells}

Points == (-GridHalf .. GridHalf) \X (-GridHalf .. GridHalf) \X (-GridHalf .. GridHalf)

\* One call of lat[0].Density(x, y, z) on a loaded object.
FieldInit ==
    /\ entry = "cli"
    /\ pc = "start"
    /\ requested = "none"
    /\ par = NoPar
    /\ calls = 0
    /\ results = <<>>
    /\ lat = <<>>
    /\ df = <<>>
    /\ integrate = "hierarchical"
    /\ warned_clipping_min = FALSE
    /\ warned_clipping_max = FALSE
    /\ img = <<>>
    /\ i_img = 0
    /\ frames = <<>>
    /\ dispatched = 0
    /\ wg = 0
    /\ tasks = {}
    /\ warnMin = 0
    /\ warnMax = 0
    /\ writers = {}
    /\ wcount = <<>>
    /\ manifest = 0
    /\ shard = NoShard
    /\ probe \in {[st |-> "call", obj |-> o, p |-> p, out |-> 0] :
                    o \in Primitives \cup Collections \cup Tessellations, p \in Points}

Evaluate(types) ==
    /\ probe.st = "call"
    /\ probe.obj.type \in types
    /\ probe' = [probe EXCEPT !.st = "return", !.out = Density(probe.obj, probe.p)]
    /\ UNCHANGED <<rvars, shard>>

PrimitiveDensity == Evaluate({o.type : o \in Primitives})
ObjectCollectionDensity == Evaluate({"object_collection"})
TessellatedObjCollDensity == Evaluate({"tessellated_obj_coll"})

FieldNext ==
    \/ PrimitiveDensity
    \/ ObjectCollectionDensity
    \/ TessellatedObjCollDensity

FieldSpec == FieldInit /\ [][FieldNext]_vars

\* ------------------------------------------------------------ ray integrals
\* One call of an integrator on a ray.  The scan window starts at 0 and is a
\* whole number of coarse steps long, or half a step shorter; along the ray
\* the object has one density on an interval [a, a + w) and 0 elsewhere, or
\* is absent.
CoarseStep == RefineFactor
FieldValues == {-1, 1, 2}
RunLengths == {3, CoarseStep, CoarseStep + 5, 2 * CoarseStep}
Multipliers == {-1, 1}
FlatFields == {-1, 0, 2}
SimpleSteps == {1, 3, CoarseStep}
HierSteps == {CoarseStep, 2 * CoarseStep}

RayFields(len) ==
    {[s \in 0 .. len |-> 0]} \cup
    {[s \in 0 .. len |-> IF a <= s /\ s < a + w THEN v ELSE 0] :
        a \in 0 .. len, w \in RunLengths, v \in FieldValues}

Rays ==
    UNION {{[field |-> f, multiplier |-> m, flat_field |-> ff, smin |-> 0,
             smax |-> len] :
                f \in RayFields(len), m \in Multipliers, ff \in FlatFields} :
           len \in {(MaxCoarse - 1) * CoarseStep, MaxCoarse * CoarseStep - CoarseStep \div 2,
                    MaxCoarse * CoarseStep}}

\* The coarse brackets the outer loop of integrate_hierarchical visits, in
\* order: the boundaries left and right, whether the inner loop ran, and the
\* sum of the weights (ds or DS) of the samples the bracket added to T.
RECURSIVE HierTrace(_, _, _, _, _, _)
HierTrace(r, DS, left, right, prev_rho, out) ==
    IF right <= r.smax
    THEN LET rho == RayDensity(r, right)
             fine == DS \div RefineFactor
             unit == [r EXCEPT !.field = [s \in DOMAIN r.field |-> 1], !.multiplier = 1]
             refined == (rho = 0) # (prev_rho = 0)
             weight == IF refined
                       THEN FineLoop(unit, fine, left + fine, right, 0) + RefinedTail(1, fine)
                       ELSE DS
         IN  HierTrace(r, DS, right, right + DS, rho,
                       Append(out, [left |-> left, right |-> right, refined |-> refined,
                                    weight |-> weight]))
    ELSE out

RayInit ==
    /\ entry = "cli"
    /\ pc = "start"
    /\ requested = "none"
    /\ par = NoPar
    /\ calls = 0
    /\ results = <<>>
    /\ lat = <<>>
    /\ df = <<>>
    /\ integrate = "hierarchical"
    /\ warned_clipping_min = FALSE
    /\ warned_clipping_max = FALSE
    /\ img = <<>>
    /\ i_img = 0
    /\ frames = <<>>
    /\ dispatched = 0
    /\ wg = 0
    /\ tasks = {}
    /\ warnMin = 0
    /\ warnMax = 0
    /\ writers = {}
    /\ wcount = <<>>
    /\ manifest = 0
    /\ shard = NoShard
    /\ probe \in {[st |-> "call", method |-> "simple", ray |-> r, step |-> d] :
                    r \in Rays, d \in SimpleSteps}
               \cup {[st |-> "call", method |-> "hierarchical", ray |-> r,
                      step |-> d] : r \in Rays, d \in HierSteps}

\* integrate_along_ray(origin, direction, ds, smin, smax)
IntegrateAlongRay ==
    /\ probe.st = "call"
    /\ probe.method = "simple"
    /\ probe' = [st |-> "return", method |-> probe.method, ray |-> probe.ray,
                 step |-> probe.step,
                 T |-> SimpleSum(probe.ray, probe.step).T,
                 n |-> SimpleSum(probe.ray, probe.step).n,
                 out |-> integrate_along_ray(probe.ray, probe.step)]
    /\ UNCHANGED <<rvars, shard>>

\* integrate_hierarchical(origin, direction, DS, smin, smax)
IntegrateHierarchical ==
    /\ probe.st = "call"
    /\ probe.method = "hierarchical"
    /\ probe' = [st |-> "return", method |-> probe.method, ray |-> probe.ray,
                 step |-> probe.step,
                 T |-> HierSum(probe.ray, probe.step),
                 n |-> 0,
                 brackets |-> HierTrace(probe.ray, probe.step, probe.ray.smin,
                                        probe.ray.smin + probe.step, 0, <<>>),
                 out |-> integrate_hierarchical(probe.ray, probe.step)]
    /\ UNCHANGED <<rvars, shard>>

RayNext ==
    \/ IntegrateAlongRay
    \/ IntegrateHierarchical

RaySpec == RayInit /\ [][RayNext]_vars

\* ------------------------------------------------------------- descriptors
\* A descriptor is a map[string]interface{}: a function from keys to Go
\* values.  A Go value carries its dynamic type, which the type assertions of
\* the FromMap methods test: the pair <<dynamic type, value>>.  Numbers are
\* integers of the grid.
Go(t, x) == <<t, x>>
GoFloats(t, xs) == Go(t, [i \in DOMAIN xs |-> Go("float64", xs[i])])

\* data[k]: the value of a missing key is nil
Get(data, k) == IF k \in DOMAIN data THEN data[k] ELSE Go("nil", 0)

\* for i, a := range list { out[i] = a.(float64) }
AllFloat(l) == \A i \in DOMAIN l[2] : l[2][i][1] = "float64"
Numbers(l) == [i \in DOMAIN l[2] |-> l[2][i][2]]

\* What a factory or a method returns: a value and no error, an error (with
\* the value returned beside it), or a panic.
Ok(x) == [st |-> "ok", val |-> x]
Failed(st, x) == [st |-> st, val |-> x]
NilEntity == [type |-> "nil"]
Partial(t) == [type |-> t, partial |-> TRUE]

\* ------------------------------------------------------------ deformations
RigidApplyBackwards(d, p) ==
    IF Len(d.displacements) < 3 THEN Failed("panic", p)
    ELSE Ok([a \in 1 .. 3 |-> p[a] - d.displacements[a]])

\* RigidDeformation.Apply: x + r.Displacements[0], ...
RigidApply(d, p) ==
    IF Len(d.displacements) < 3 THEN Failed("panic", p)
    ELSE Ok([a \in 1 .. 3 |-> p[a] + d.displacements[a]])

\* LinearDeformation.Apply: the symmetric strain tensor, Strains[0..5]
LinearApply(d, p) ==
    IF Len(d.strains) < 6 THEN Failed("panic", p)
    ELSE LET e == d.strains
         IN  Ok(<<p[1] + e[1] * p[1] + e[6] * p[2] + e[5] * p[3],
                  p[2] + e[6] * p[1] + e[2] * p[2] + e[4] * p[3],
                  p[3] + e[5] * p[1] + e[4] * p[2] + e[3] * p[3]>>)

\* AffineDeformation.Apply: Matrix * (x, y, z)
AffineApply(d, p) == Ok([a \in 1 .. 3 |-> Dot(d.matrix[a], p)])

\* SigmoidDeformation.Apply: amplitude/(1 + exp(-(x - center)/lengthscale))
\* along the direction, for a lengthscale far below one grid step, rounded to
\* the grid; default: log.Fatal().Msg("Invalid direction")
SigmoidApply(d, p) ==
    LET a == CASE d.direction = "x" -> 1 [] d.direction = "y" -> 2
               [] d.direction = "z" -> 3 [] OTHER -> 0
    IN  IF a = 0 THEN Failed("fatal", p)
        ELSE Ok([p EXCEPT ![a] = @ + (IF p[a] < d.center THEN 0
                                      ELSE IF p[a] = d.center THEN d.amplitude \div 2
                                      ELSE d.amplitude)])

\* GaussianDeformation.Apply: amplitude*exp(-r2/(2*sigma*sigma)) for sigmas
\* far below one grid step, rounded to the grid
GaussianApply(d, p) ==
    IF Len(d.centers) < 3 \/ Len(d.amplitudes) < 3 \/ Len(d.sigmas) < 3
    THEN Failed("panic", p)
    ELSE LET q == VSub(p, d.centers)
         IN  Ok([a \in 1 .. 3 |-> p[a] + (IF Dot(q, q) = 0 THEN d.amplitudes[a] ELSE 0)])

RECURSIVE Apply(_, _)
RECURSIVE ComposedLoop(_, _, _)

ComposedLoopBackwards(ds, i, p) ==
    IF i > Len(ds) THEN Ok(p)
    ELSE LET q == Apply(ds[Len(ds) + 1 - i], p)
         IN  IF q.st = "ok" THEN ComposedLoop(ds, i + 1, q.val) ELSE q

\* ComposedDeformation.Apply: for _, d := range c.Deformations { x, y, z = d.Apply(x, y, z) }
ComposedLoop(ds, i, p) ==
    IF i > Len(ds) THEN Ok(p)
    ELSE LET q == Apply(ds[i], p)
         IN  IF q.st = "ok" THEN ComposedLoop(ds, i + 1, q.val) ELSE q

\* Deformation.Apply, dispatched on the dynamic type
Apply(d, p) ==
    CASE d.type = "rigid" -> RigidApply(d, p)
      [] d.type = "linear" -> LinearApply(d, p)
      [] d.type = "affine" -> AffineApply(d, p)
      [] d.type = "sigmoid" -> SigmoidApply(d, p)
      [] d.type = "gaussian" -> GaussianApply(d, p)
      [] d.type = "composed" -> ComposedLoop(d.deformations, 1, p)

\* deform(x, y, z) of main[1] on a point: no deformation is the identity,
\* one deformation is applied, more are fatal.
DeformPoint(dfl, p) ==
    IF Len(dfl) = 0 THEN Ok(p)
    ELSE IF Len(dfl) = 1 THEN Apply(dfl[1], p)
    ELSE Failed("fatal", p)

\* density(x, y, z) of main[1] on a point
DensityAt(latl, dfl, p) == Density(latl[1], DeformPoint(dfl, p).val) * density_multiplier

\* RigidDeformation.FromMap / LinearDeformation.FromMap: the list under key k
\* must be a []interface{}; its elements are asserted to be float64 (a failed
\* single-value assertion panics); the length is not checked.
FloatListFromMap(t, k, data) ==
    LET l == Get(data, k)
    IN  IF l[1] # "[]interface{}" THEN Failed("error", Partial(t))
        ELSE IF ~AllFloat(l) THEN Failed("panic", NilEntity)
        ELSE Ok([type |-> t] @@ (k :> Numbers(l)))

\* GaussianDeformation.FromMap: only amplitudes is tested with ok; sigmas and
\* centers are single-value assertions.
GaussianFromMap(data) ==
    LET a == Get(data, "amplitudes")
        sg == Get(data, "sigmas")
        c == Get(data, "centers")
    IN  IF a[1] # "[]interface{}" THEN Failed("error", Partial("gaussian"))
        ELSE IF \E l \in {a, sg, c} : l[1] # "[]interface{}" \/ ~AllFloat(l)
        THEN Failed("panic", NilEntity)
        ELSE Ok([type |-> "gaussian", amplitudes |-> Numbers(a), sigmas |-> Numbers(sg),
                 centers |-> Numbers(c)])

\* AffineDeformation.FromMap: 3 rows of 3 elements, the elements asserted.
AffineFromMap(data) ==
    LET m == Get(data, "matrix")
        Shaped(l) == l[1] = "[]interface{}" /\ Len(l[2]) = 3
    IN  IF ~Shaped(m) THEN Failed("error", Partial("affine"))
        ELSE LET bad == {i \in 1 .. 3 : ~Shaped(m[2][i]) \/ ~AllFloat(m[2][i])}
                 first == CHOOSE i \in bad : \A j \in bad : i <= j
             IN  IF bad = {}
                 THEN Ok([type |-> "affine", matrix |-> [i \in 1 .. 3 |-> Numbers(m[2][i])]])
                 ELSE IF ~Shaped(m[2][first]) THEN Failed("error", Partial("affine"))
                 ELSE Failed("panic", NilEntity)

\* SigmoidDeformation.FromMap: three numbers (toFloat64: int or float64), two
\* strings; the direction is any string.
SigmoidFromMap(data) ==
    IF /\ \A k \in {"amplitude", "center", "lengthscale"} :
            Get(data, k)[1] \in {"int", "float64"}
       /\ Get(data, "direction")[1] = "string"
    THEN Ok([type |-> "sigmoid", amplitude |-> data["amplitude"][2],
             center |-> data["center"][2], lengthscale |-> data["lengthscale"][2],
             direction |-> data["direction"][2]])
    ELSE Failed("error", Partial("sigmoid"))

RECURSIVE NewDeformation(_)
RECURSIVE ComposedFromMapLoop(_, _, _)

\* ComposedDeformation.FromMap: the children are created in list order; the
\* first error is returned.
ComposedFromMapLoop(items, i, acc) ==
    IF i > Len(items) THEN Ok([type |-> "composed", deformations |-> acc])
    ELSE IF items[i][1] # "map[string]interface{}" THEN Failed("panic", NilEntity)
    ELSE LET r == NewDeformation(items[i][2])
         IN  IF r.st = "ok" THEN ComposedFromMapLoop(items, i + 1, Append(acc, r.val))
             ELSE IF r.st = "panic" THEN r
             ELSE Failed("error", Partial("composed"))

NewDeformationDefaultsToRigid(data) ==
    FloatListFromMap("rigid", "displacements", data)

\* NewDeformation: a nil or unknown type is an error and a nil deformation; a
\* failed FromMap returns the error with the deformation it was filling.
NewDeformation(data) ==
    LET t == Get(data, "type")
    IN  IF t[1] # "string" THEN Failed("error", NilEntity)
        ELSE CASE t[2] = "gaussian" -> GaussianFromMap(data)
               [] t[2] = "linear" -> FloatListFromMap("linear", "strains", data)
               [] t[2] = "rigid" -> FloatListFromMap("rigid", "displacements", data)
               [] t[2] = "sigmoid" -> SigmoidFromMap(data)
               [] t[2] = "composed" ->
                    IF Get(data, "deformations")[1] # "[]interface{}"
                    THEN Failed("error", Partial("composed"))
                    ELSE ComposedFromMapLoop(data["deformations"][2], 1, <<>>)
               [] t[2] = "affine" -> AffineFromMap(data)
               [] OTHER -> Failed("error", NilEntity)

\* Deformation.ToMap: the fields as they are stored ([]float64,
\* [3][3]float64, float64, string) and the Type field; a composed deformation
\* has the one key "deformations".
RECURSIVE DeformationToMap(_)
DeformationToMap(d) ==
    CASE d.type = "rigid" ->
            [displacements |-> GoFloats("[]float64", d.displacements),
             type |-> Go("string", d.type)]
      [] d.type = "linear" ->
            [strains |-> GoFloats("[]float64", d.strains), type |-> Go("string", d.type)]
      [] d.type = "gaussian" ->
            [amplitudes |-> GoFloats("[]float64", d.amplitudes),
             sigmas |-> GoFloats("[]float64", d.sigmas),
             centers |-> GoFloats("[]float64", d.centers), type |-> Go("string", d.type)]
      [] d.type = "affine" ->
            [matrix |-> Go("[3][3]float64",
                           [i \in 1 .. 3 |-> GoFloats("[3]float64", d.matrix[i])]),
             type |-> Go("string", d.type)]
      [] d.type = "sigmoid" ->
            [amplitude |-> Go("float64", d.amplitude), center |-> Go("float64", d.center),
             lengthscale |-> Go("float64", d.lengthscale),
             direction |-> Go("string", d.direction), type |-> Go("string", d.type)]
      [] d.type = "composed" ->
            [deformations |->
                Go("[]map[string]interface{}",
                   [i \in DOMAIN d.deformations |->
                        Go("map[string]interface{}", DeformationToMap(d.deformations[i]))])]

\* json.Marshal followed by json.Unmarshal into a map[string]interface{}:
\* every number is a float64, every slice or array a []interface{}.
RECURSIVE Json(_)
Json(x) ==
    CASE x[1] \in {"int", "float64"} -> Go("float64", x[2])
      [] x[1] \in {"string", "bool", "nil"} -> x
      [] x[1] = "map[string]interface{}" -> Go(x[1], [k \in DOMAIN x[2] |-> Json(x[2][k])])
      [] OTHER -> Go("[]interface{}", [i \in DOMAIN x[2] |-> Json(x[2][i])])

\* How a descriptor reaches a factory again: as the map in memory, or
\* written as JSON (render writes lat[0].ToMap() so) and read back.
Transport(via, data) ==
    IF via = "json" THEN Json(Go("map[string]interface{}", data))[2] ELSE data

\* ----------------------------------------------------- objects, (de)coded
\* The entry of a failed step decides what a FromMap returns: the first
\* error, or a panic; the object is returned when every step succeeded.
Outcome(steps, object) ==
    LET bad == {i \in DOMAIN steps : steps[i].st # "ok"}
    IN  IF bad = {} THEN Ok(object)
        ELSE Failed(steps[CHOOSE i \in bad : \A j \in bad : i <= j].st, NilEntity)

\* Filling a mgl64.Vec3 from a list: Sphere.FromMap uses ToFloat64 on every
\* element (an error), Cube.FromMap asserts float64 (a panic), ToVec skips
\* what is not a number; a number at index 3 or beyond is out of range.
ToVec(l, strict) ==
    LET IsNum(i) == l[2][i][1] \in {"int", "float64"}
        head == {i \in DOMAIN l[2] : i <= 3}
        vec == [a \in 1 .. 3 |-> IF a \in head /\ IsNum(a) THEN l[2][a][2] ELSE 0]
    IN  IF l[1] # "[]interface{}" THEN Failed("error", Origin3)
        ELSE IF strict = "error" /\ \E i \in head : ~IsNum(i) THEN Failed("error", Origin3)
        ELSE IF strict = "panic" /\ ~AllFloat(l) THEN Failed("panic", Origin3)
        ELSE IF \E i \in DOMAIN l[2] : i > 3 /\ (IsNum(i) \/ strict # "skip")
        THEN Failed("panic", Origin3)
        ELSE Ok(vec)

\* xmin, xmax, ... zmax of a unit cell or a tessellation: ToFloat64 each
BoundsFromMap(data) ==
    LET keys == <<"xmin", "ymin", "zmin", "xmax", "ymax", "zmax">>
    IN  IF \A i \in 1 .. 6 : Get(data, keys[i])[1] \in {"int", "float64"}
        THEN Ok([lo |-> [a \in 1 .. 3 |-> data[keys[a]][2]],
                 hi |-> [a \in 1 .. 3 |-> data[keys[a + 3]][2]]])
        ELSE Failed("error", [lo |-> Origin3, hi |-> Origin3])

\* The raw voxel files on disk: 2x2x2 unsigned bytes.
RawFiles == [path \in {"grid.raw"} |-> <<255, 0, 255, 0, 0, 0, 255, 255>>]

\* VoxelGridFromRaw: the file must exist and have the size the resolution and
\* the data type give; unsigned samples are scaled to [0, 1] (a sample of all
\* 0 bytes is 0, of all 255 bytes is 1).  No modelled file has the size of a
\* float type.
VoxelGridFromRaw(path, resolution, dtype) ==
    LET bytesPerElement ==
            CASE dtype = "uint8" -> 1 [] dtype = "uint16" -> 2 [] dtype = "uint32" -> 4
              [] dtype = "float32" -> 4 [] dtype = "float64" -> 8 [] OTHER -> 0
        n == resolution[1] * resolution[2] * resolution[3]
    IN  IF \/ path \notin DOMAIN RawFiles
           \/ bytesPerElement = 0
           \/ Len(RawFiles[path]) # n * bytesPerElement
           \/ dtype \in {"float32", "float64"}
        THEN Failed("error", NilEntity)
        ELSE Ok([type |-> "voxel_grid", nx |-> resolution[1], ny |-> resolution[2],
                 nz |-> resolution[3], path |-> path,
                 voxels |-> [i \in 1 .. n |->
                                RawFiles[path][(i - 1) * bytesPerElement + 1] \div 255]])

RECURSIVE FromMap(_, _)
RECURSIVE ChildrenFromMap(_, _, _, _)

\* ObjectCollection.FromMap, the loop over "objects": a child is created by
\* its type (a nested object_collection is not in the switch) and filled.
ChildrenFromMap(items, greedy, i, acc) ==
    IF i > Len(items)
    THEN Ok([type |-> "object_collection", objects |-> acc, greedy |-> greedy])
    ELSE IF items[i][1] # "map[string]interface{}" THEN Failed("panic", NilEntity)
    ELSE LET t == Get(items[i][2], "type")
         IN  IF t[1] # "string" \/ t[2] \notin {"sphere", "cube", "box", "cylinder",
                    "parallelepiped", "gyroid", "tessellated_obj_coll", "voxel_grid"}
             THEN Failed("error", NilEntity)
             ELSE LET r == FromMap(t[2], items[i][2])
                  IN  IF r.st = "ok"
                      THEN ChildrenFromMap(items, greedy, i + 1, Append(acc, r.val))
                      ELSE r

\* Object.FromMap of the type t ("unit_cell" is UnitCell.FromMap)
FromMap(t, data) ==
    LET Vec(k, strict) == ToVec(Get(data, k), strict)
        Float(k) == IF Get(data, k)[1] = "float64" THEN Ok(data[k][2]) ELSE Failed("error", 0)
        Number(k) == IF Get(data, k)[1] \in {"int", "float64"} THEN Ok(data[k][2])
                     ELSE Failed("error", 0)
    IN  CASE t = "sphere" ->
            LET st == <<Vec("center", "error"), Float("radius"), Float("rho")>>
            IN  Outcome(st, [type |-> t, center |-> st[1].val, radius |-> st[2].val,
                             rho |-> st[3].val])
          [] t = "cube" ->
            LET st == <<Vec("center", "panic"), Float("side"), Float("rho")>>
            IN  Outcome(st, [type |-> t, center |-> st[1].val, side |-> st[2].val,
                             rho |-> st[3].val])
          [] t = "box" ->
            LET st == <<Vec("center", "skip"), Vec("sides", "skip"), Number("rho")>>
            IN  Outcome(st, [type |-> t, center |-> st[1].val, sides |-> st[2].val,
                             rho |-> st[3].val])
          [] t = "parallelepiped" ->
            LET st == <<Vec("origin", "skip"), Vec("v0", "skip"), Vec("v1", "skip"),
                        Vec("v2", "skip"), Number("rho")>>
            IN  Outcome(st, [type |-> t, origin |-> st[1].val, v0 |-> st[2].val,
                             v1 |-> st[3].val, v2 |-> st[4].val, rho |-> st[5].val])
          [] t = "cylinder" ->
            LET st == <<Vec("p0", "skip"), Vec("p1", "skip"), Float("radius"),
                        IF "rho" \in DOMAIN data THEN Number("rho") ELSE Ok(DensityUnit)>>
            IN  Outcome(st, [type |-> t, p0 |-> st[1].val, p1 |-> st[2].val,
                             radius |-> st[3].val, rho |-> st[4].val])
          [] t = "gyroid" ->
            LET c == Get(data, "center")
                st == <<IF c[1] \in {"mgl64.Vec3", "[]float64"} THEN Ok(Numbers(c))
                        ELSE ToVec(c, "error"),
                        Float("scale"), Float("thickness"), Float("rho")>>
            IN  Outcome(st, [type |-> t, center |-> st[1].val, scale |-> st[2].val,
                             thickness |-> st[3].val, rho |-> st[4].val])
          [] t = "voxel_grid" ->
            LET path == Get(data, "path")
                res == Get(data, "resolution")
                dtype == Get(data, "dtype")
            IN  IF path[1] # "string" THEN Failed("error", NilEntity)
                ELSE IF \/ path[2] \notin {"grid.raw", "none.raw"}
                        \/ res[1] # "[]interface{}"
                        \/ Len(res[2]) # 3
                        \/ \E i \in 1 .. 3 : res[2][i][1] # "int"
                THEN Failed("error", NilEntity)
                ELSE VoxelGridFromRaw(path[2], Numbers(res),
                                      IF dtype[1] = "string" THEN dtype[2] ELSE "uint8")
          [] t = "object_collection" ->
            LET g == Get(data, "greedy_dens_eval")
                l == Get(data, "objects")
            IN  IF l[1] # "[]interface{}" THEN Failed("error", NilEntity)
                ELSE ChildrenFromMap(l[2], g[1] = "bool" /\ g[2], 1, <<>>)
          [] t = "unit_cell" ->
            LET m == Get(data, "objects")
                oc == IF m[1] = "map[string]interface{}"
                      THEN FromMap("object_collection", m[2]) ELSE Failed("error", NilEntity)
                st == <<oc, BoundsFromMap(data)>>
            IN  Outcome(st, [objects |-> [oc.val EXCEPT !.greedy = TRUE],
                             lo |-> st[2].val.lo, hi |-> st[2].val.hi])
          [] t = "tessellated_obj_coll" ->
            LET m == Get(data, "uc")
                st == <<IF m[1] = "map[string]interface{}" THEN FromMap("unit_cell", m[2])
                        ELSE Failed("error", NilEntity),
                        BoundsFromMap(data)>>
            IN  Outcome(st, [type |-> t, uc |-> st[1].val, lo |-> st[2].val.lo,
                             hi |-> st[2].val.hi])

\* NewObject: an unknown type is an error and a nil object; so is a failed
\* FromMap.
NewObject(data) ==
    LET t == Get(data, "type")
    IN  IF t[1] = "string" /\ t[2] \in {"sphere", "cube", "box", "cylinder",
                "parallelepiped", "gyroid", "object_collection",
                "tessellated_obj_coll", "voxel_grid"}
        THEN FromMap(t[2], data)
        ELSE Failed("error", NilEntity)

\* Object.ToMap: the type and the fields as they are stored (mgl64.Vec3,
\* float64, int); a collection has the keys "type" and "objects", a voxel
\* grid has no "resolution" and says dtype float64.
RECURSIVE ToMap(_)
ToMap(o) ==
    LET F(x) == Go("float64", x)
        V(x) == GoFloats("mgl64.Vec3", x)
        M(x) == Go("map[string]interface{}", x)
        B(b) == [xmin |-> F(b.lo[1]), xmax |-> F(b.hi[1]), ymin |-> F(b.lo[2]),
                 ymax |-> F(b.hi[2]), zmin |-> F(b.lo[3]), zmax |-> F(b.hi[3])]
        T == [type |-> Go("string", o.type)]
    IN  CASE o.type = "sphere" ->
                T @@ [center |-> V(o.center), radius |-> F(o.radius), rho |-> F(o.rho)]
          [] o.type = "cube" ->
                T @@ [center |-> V(o.center), side |-> F(o.side), rho |-> F(o.rho)]
          [] o.type = "box" ->
                T @@ [center |-> V(o.center), sides |-> V(o.sides), rho |-> F(o.rho)]
          [] o.type = "parallelepiped" ->
                T @@ [origin |-> V(o.origin), v0 |-> V(o.v0), v1 |-> V(o.v1),
                      v2 |-> V(o.v2), rho |-> F(o.rho)]
          [] o.type = "cylinder" ->
                T @@ [p0 |-> V(o.p0), p1 |-> V(o.p1), radius |-> F(o.radius),
                      rho |-> F(o.rho)]
          [] o.type = "gyroid" ->
                T @@ [center |-> V(o.center), scale |-> F(o.scale),
                      thickness |-> F(o.thickness), rho |-> F(o.rho)]
          [] o.type = "voxel_grid" ->
                T @@ [nx |-> Go("int", o.nx), ny |-> Go("int", o.ny), nz |-> Go("int", o.nz),
                      dtype |-> Go("string", "float64"), path |-> Go("string", o.path)]
          [] o.type = "object_collection" ->
                T @@ [objects |-> Go("[]map[string]interface{}",
                                     [i \in DOMAIN o.objects |-> M(ToMap(o.objects[i]))])]
          [] o.type = "tessellated_obj_coll" ->
                T @@ B(o) @@
                [uc |-> M([type |-> Go("string", "unit_cell"),
                           objects |-> M(ToMap(o.uc.objects))] @@ B(o.uc))]

\* MinFeatureSize in tenths of a grid step: the radius of a sphere or a
\* cylinder, 0.1 of the smallest side of a box, 0.2 of the shortest edge of
\* a parallelepiped, 0.1 * scale * thickness of a gyroid, 2/max(n) of a voxel
\* grid, the minimum over the children of a collection (math.Inf(1) for
\* none), the unit cell's collection for a tessellation.
Infinity == 1000000
Isqrt(n) == CHOOSE r \in 0 .. n : r * r <= n /\ (r + 1) * (r + 1) > n
RECURSIVE FeatureSize(_)
RECURSIVE FeatureSizeLoop(_, _, _)
FeatureSizeLoop(objs, i, out) ==
    IF i > Len(objs) THEN out
    ELSE LET m == FeatureSize(objs[i])
         IN  FeatureSizeLoop(objs, i + 1, IF m < out THEN m ELSE out)
FeatureSize(o) ==
    LET Min3(x) == CHOOSE m \in {x[1], x[2], x[3]} : \A a \in 1 .. 3 : m <= x[a]
        Max3(x) == CHOOSE m \in {x[1], x[2], x[3]} : \A a \in 1 .. 3 : m >= x[a]
    IN  CASE o.type \in {"sphere", "cylinder"} -> 10 * o.radius
          [] o.type = "cube" -> o.side
          [] o.type = "box" -> Min3(o.sides)
          [] o.type = "parallelepiped" ->
                2 * Min3(<<Isqrt(Dot(o.v0, o.v0)), Isqrt(Dot(o.v1, o.v1)),
                           Isqrt(Dot(o.v2, o.v2))>>)
          [] o.type = "gyroid" -> o.scale * o.thickness
          [] o.type = "voxel_grid" ->
                IF Max3(<<o.nx, o.ny, o.nz>>) = 0 THEN Infinity
                ELSE (20 * WorldUnit) \div Max3(<<o.nx, o.ny, o.nz>>)
          [] o.type = "object_collection" -> FeatureSizeLoop(o.objects, 1, Infinity)
          [] o.type = "tessellated_obj_coll" -> FeatureSize(o.uc.objects)

\* ------------------------------------------------------------ loading files
\* What a deformation file holds once decoded (yaml.Unmarshal or
\* json.Unmarshal into a map): well-formed descriptors of every type, lists
\* that are short, missing or hold YAML integers, directions that are not an
\* axis, types the factory does not know, and chains of up to MaxChain links.
PlainDescriptors ==
    LET T(t) == [type |-> Go("string", t)]
        F(x) == Go("float64", x)
        L(x) == GoFloats("[]interface{}", x)
    IN  {T("rigid") @@ [displacements |-> L(u)] :
            u \in {<<1, 0, 0>>, <<0, -1, 2>>, <<1, 0>>, <<>>}}
        \cup {T("rigid"),
              T("rigid") @@ [displacements |->
                    Go("[]interface{}", <<Go("int", 1), Go("int", 0), Go("int", 0)>>)]}
        \cup {T("linear") @@ [strains |-> L(e)] :
                e \in {<<1, 0, 0, 0, 0, 0>>, <<0, 0, 0, 0, 0, 1>>, <<1, 0, 0>>}}
        \cup {T("affine") @@
                [matrix |-> Go("[]interface{}", [i \in DOMAIN m |-> L(m[i])])] :
                m \in {<<<<1, 1, 0>>, <<0, 1, 0>>, <<0, 0, 1>>>>, <<<<1, 0, 0>>, <<0, 1, 0>>>>}}
        \cup {T("sigmoid") @@
                [amplitude |-> F(2), center |-> Go("int", 0), lengthscale |-> F(1),
                 direction |-> Go("string", dir)] : dir \in {"x", "y", "z", "w"}}
        \cup {T("sigmoid") @@ [amplitude |-> F(2), center |-> F(0), lengthscale |-> F(1)]}
        \cup {T("gaussian") @@
                [amplitudes |-> L(a), sigmas |-> L(<<1, 1, 1>>), centers |-> L(c)] :
                a \in {<<2, 0, 0>>, <<2, 0>>}, c \in {Origin3, <<0, 0>>}}
        \cup {T("gaussian") @@ [amplitudes |-> L(<<2, 0, 0>>)],
              T("gaussian") @@ [sigmas |-> L(<<1, 1, 1>>), centers |-> L(Origin3)]}
        \cup {T("torus"), [type |-> Go("int", 1)], [displacements |-> L(<<1, 0, 0>>)]}

ChainLinks ==
    {d \in PlainDescriptors :
        \/ "displacements" \in DOMAIN d /\ d["displacements"] \in
                {GoFloats("[]interface{}", <<1, 0, 0>>), GoFloats("[]interface{}", <<1, 0>>)}
        \/ "strains" \in DOMAIN d /\ d["strains"] = GoFloats("[]interface{}", <<1, 0, 0, 0, 0, 0>>)
        \/ d = [type |-> Go("string", "torus")]}

DeformationDescriptors ==
    PlainDescriptors
    \cup {[type |-> Go("string", "composed"),
           deformations |-> Go("[]interface{}",
                               [i \in DOMAIN l |-> Go("map[string]interface{}", l[i])])] :
            l \in UNION {[1 .. n -> ChainLinks] : n \in 0 .. MaxChain}}
    \cup {[type |-> Go("string", "composed")]}

\* What an object file holds once decoded.
ChildDescriptors ==
    LET S(x) == Go("string", x)
        F(x) == Go("float64", x)
        L(x) == GoFloats("[]interface{}", x)
    IN  {[type |-> S("sphere"), center |-> L(Origin3), radius |-> F(2), rho |-> F(DensityUnit)],
         [type |-> S("sphere"), center |-> L(Origin3), radius |-> F(1), rho |-> F(-DensityUnit)],
         [type |-> S("box"), center |-> L(Origin3), sides |-> L(<<4, 2, 6>>),
          rho |-> F(2 * DensityUnit)],
         [type |-> S("object_collection"), objects |-> Go("[]interface{}", <<>>)],
         [type |-> S("torus")]}

ObjectDescriptors ==
    LET S(x) == Go("string", x)
        F(x) == Go("float64", x)
        L(x) == GoFloats("[]interface{}", x)
        M(x) == Go("map[string]interface{}", x)
        B(lo, hi) == [xmin |-> F(lo[1]), xmax |-> F(hi[1]), ymin |-> F(lo[2]),
                      ymax |-> F(hi[2]), zmin |-> F(lo[3]), zmax |-> F(hi[3])]
        lists == UNION {[1 .. n -> ChildDescriptors] : n \in 0 .. MaxChildren}
        Coll(l) == [type |-> S("object_collection"),
                    objects |-> Go("[]interface{}", [i \in DOMAIN l |-> M(l[i])])]
        Grid(res) == [type |-> S("voxel_grid"), path |-> S("grid.raw"), resolution |-> res]
    IN  {[type |-> S("sphere"), center |-> L(<<1, 0, 0>>), radius |-> r, rho |-> F(DensityUnit)] :
            r \in {F(2), F(0), F(-1), Go("int", 2)}}
        \cup {[type |-> S("cube"), center |-> L(<<1, 0, 0>>), side |-> F(3), rho |-> F(DensityUnit)],
              [type |-> S("cylinder"), p0 |-> L(<<-1, 0, 0>>), p1 |-> L(<<1, 0, 0>>),
               radius |-> F(2)],
              [type |-> S("cylinder"), p0 |-> L(<<-1, 0, 0>>), p1 |-> L(<<1, 0, 0>>),
               radius |-> F(2), rho |-> Go("int", -DensityUnit)],
              [type |-> S("parallelepiped"), origin |-> L(<<-2, -2, -2>>),
               v0 |-> L(<<3, 0, 0>>), v1 |-> L(<<1, 3, 0>>), v2 |-> L(<<0, 0, 3>>),
               rho |-> F(DensityUnit)],
              [type |-> S("parallelepiped"), origin |-> L(Origin3),
               v0 |-> L(<<3, 0, 0>>), v1 |-> L(Origin3), v2 |-> L(<<0, 0, 3>>),
               rho |-> F(DensityUnit)],
              [type |-> S("gyroid"), center |-> L(Origin3), scale |-> F(1),
               thickness |-> F(1), rho |-> F(DensityUnit)],
              Grid(Go("[]interface{}", <<Go("int", 2), Go("int", 2), Go("int", 2)>>)),
              Grid(L(<<2, 2, 2>>)),
              Grid(Go("[]interface{}", <<Go("int", 2), Go("int", 2), Go("int", 2)>>))
                @@ [dtype |-> S("float64")],
              [type |-> S("voxel_grid"), nx |-> Go("int", 2), ny |-> Go("int", 2),
               nz |-> Go("int", 2), rho |-> L(<<1, 1, 1, 1, 1, 1, 1, 1>>)],
              [type |-> S("unit_cell"), objects |-> M(Coll(<<>>))] @@ B(Origin3, <<2, 2, 2>>),
              [type |-> S("torus")],
              [center |-> L(Origin3), radius |-> F(2), rho |-> F(DensityUnit)]}
        \cup {Coll(l) : l \in lists}
        \cup {Coll(l) @@ [greedy_dens_eval |-> Go("bool", g)] : l \in lists, g \in BOOLEAN}
        \cup {[type |-> S("tessellated_obj_coll"),
               uc |-> M([objects |-> M(Coll(l))] @@ B(Origin3, <<2, 2, 2>>))]
                @@ B(<<-2, -2, -2>>, <<2, 2, 2>>) : l \in lists}

\* A process loads a deformation file (or none) for a scene and evaluates
\* the density at a point, or loads an object file.
LoadInit ==
    /\ entry = "cli"
    /\ pc = "start"
    /\ requested = "none"
    /\ par = NoPar
    /\ calls = 0
    /\ results = <<>>
    /\ lat = <<>>
    /\ df = <<>>
    /\ integrate = "hierarchical"
    /\ warned_clipping_min = FALSE
    /\ warned_clipping_max = FALSE
    /\ img = <<>>
    /\ i_img = 0
    /\ frames = <<>>
    /\ dispatched = 0
    /\ wg = 0
    /\ tasks = {}
    /\ warnMin = 0
    /\ warnMax = 0
    /\ writers = {}
    /\ wcount = <<>>
    /\ manifest = 0
    /\ shard = NoShard
    /\ probe \in
        {[st |-> "file", data |-> d, obj |-> o, p |-> p] :
            d \in DeformationDescriptors,
            o \in {o \in AnalyticPrimitives :
                        o.type \in {"sphere", "cube"} /\ o.rho = DensityUnit},
            p \in Points}
        \cup {[st |-> "nofile", obj |-> o, p |-> p] :
                o \in {o \in AnalyticPrimitives :
                            o.type \in {"sphere", "cube"} /\ o.rho = DensityUnit},
                p \in Points}
        \cup {[st |-> "objfile", data |-> d] : d \in ObjectDescriptors}

\* load_deformation: no file name leaves df empty; a descriptor the factory
\* accepts is appended to df; an error is returned to render.
LoadDeformation ==
    /\ probe.st \in {"file", "nofile"}
    /\ probe' =
        IF probe.st = "nofile"
        THEN [st |-> "loaded", given |-> FALSE, dfl |-> <<>>, obj |-> probe.obj,
              p |-> probe.p]
        ELSE LET r == NewDeformation(probe.data)
             IN  IF r.st = "ok"
                 THEN [st |-> "loaded", given |-> TRUE, data |-> probe.data,
                       dfl |-> <<r.val>>, obj |-> probe.obj, p |-> probe.p]
                 ELSE [st |-> IF r.st = "error" THEN "rejected" ELSE "panic",
                       given |-> TRUE, data |-> probe.data, created |-> r.val]
    /\ UNCHANGED <<rvars, shard>>

\* density(x, y, z): deform the point, evaluate lat[0] there.
DeformedDensity ==
    /\ probe.st = "loaded"
    /\ LET q == DeformPoint(probe.dfl, probe.p)
       IN  probe' =
             IF q.st = "ok"
             THEN [probe EXCEPT !.st = "done"] @@
                  [q |-> q.val, out |-> DensityAt(<<probe.obj>>, probe.dfl, probe.p)]
             ELSE [probe EXCEPT !.st = q.st]
    /\ UNCHANGED <<rvars, shard>>

\* The loaded deformation is serialised and created again from its own
\* descriptor.
ReloadDeformation ==
    /\ probe.st = "loaded"
    /\ probe.given
    /\ \E via \in {"memory", "json"} :
        LET r == NewDeformation(Transport(via, DeformationToMap(probe.dfl[1])))
        IN  probe' = [st |-> "reloaded", from |-> probe.dfl[1], via |-> via,
                      res |-> r.st, created |-> r.val]
    /\ UNCHANGED <<rvars, shard>>

\* load_object: the object the factory returns is appended to lat, also the
\* nil object of a failed creation.
LoadObject ==
    /\ probe.st = "objfile"
    /\ LET r == NewObject(probe.data)
       IN  probe' = IF r.st = "panic" THEN [st |-> "panic", data |-> probe.data]
                    ELSE [st |-> "objloaded", data |-> probe.data, err |-> r.st # "ok",
                          latl |-> <<r.val>>]
    /\ UNCHANGED <<rvars, shard>>

\* render: if ds < 0 { ds = lat[0].MinFeatureSize() / 3.0 }; ds is in
\* thirtieths of a grid step (Infinity: +Inf).
SetStep ==
    /\ probe.st = "objloaded"
    /\ probe' = IF probe.latl[1].type = "nil" THEN [st |-> "panic", data |-> probe.data]
                ELSE [st |-> "stepped", data |-> probe.data, latl |-> probe.latl,
                      ds |-> FeatureSize(probe.latl[1])]
    /\ UNCHANGED <<rvars, shard>>

\* render writes lat[0].ToMap() as JSON; the object is created again from
\* its own descriptor, taken from memory or from that file.
ReloadObject ==
    /\ probe.st = "objloaded"
    /\ ~probe.err
    /\ \E via \in {"memory", "json"} :
        LET r == NewObject(Transport(via, ToMap(probe.latl[1])))
        IN  probe' = [st |-> "objreloaded", from |-> probe.latl[1], via |-> via,
                      res |-> r.st, created |-> r.val]
    /\ UNCHANGED <<rvars, shard>>

LoadNext ==
    \/ LoadDeformation
    \/ DeformedDensity
    \/ ReloadDeformation
    \/ LoadObject
    \/ SetStep
    \/ ReloadObject

LoadSpec == LoadInit /\ [][LoadNext]_vars

\* Goroutines are scheduled fairly: the main goroutine and every pixel
\* goroutine that can take a step eventually takes one.
Fairness ==
    /\ WF_vars(MainStep)
    /\ \A c \in Cells(MaxRes) : WF_vars(\E t \in tasks : <<t.i, t.j>> = c /\ TaskStep(t))

FairSpec == Spec /\ Fairness

\* ------------------------------------------------------------------ claims
ImagePcs == {"dispatch", "wait", "assemble"}
RenderPcs == {"render", "loop", "manifest"} \cup ImagePcs
TasksAt(c) == {t \in tasks : <<t.i, t.j>> = c}
FrameImages == {frames[n].image : n \in 1 .. Len(frames)}

\* C1: while an image is rendered, the pixel task (i,j) writes the cell
\* img[i][j] and no other, exactly once (a dispatched task that has passed
\* its assignment has written once, every other cell is unwritten), and no
\* cell is written by two tasks.
PixelWritesDisjoint ==
    pc \in ImagePcs =>
        /\ \A w \in writers : w.cell = w.by
        /\ \A c \in Cells(par.res) :
            wcount[c] = IF /\ RayIndex(c[1], c[2], par.res) < dispatched
                           /\ \A t \in TasksAt(c) : t.st = "written"
                        THEN 1 ELSE 0

\* C1 witness: at the largest resolution all cells of an image have been
\* written, each by its own task, while the last task has not yet returned.
PixelWritesWitness ==
    /\ pc = "wait"
    /\ par.res = MaxRes
    /\ tasks # {}
    /\ Cardinality(writers) = MaxRes * MaxRes
    /\ \A c \in Cells(par.res) : wcount[c] = 1

\* C2: the assembly of an image starts only when every pixel task of that
\* image has finished: no task is pending, all res*res cells are written,
\* and every assembled frame holds fully computed pixels.
AssemblyAfterBarrier ==
    /\ pc = "assemble" =>
        /\ tasks = {}
        /\ wg = 0
        /\ \A c \in Cells(par.res) : wcount[c] = 1
    /\ \A n \in 1 .. Len(frames) :
        \A c \in DOMAIN frames[n].pixels : frames[n].pixels[c] # 0

\* C2 witness: the assembly of an image of the largest resolution is about
\* to read the buffer.
AssemblyWitness ==
    /\ pc = "assemble"
    /\ par.res = MaxRes
    /\ dispatched = MaxRes * MaxRes

\* C3: images are rendered one after another: every running pixel task
\* belongs to the current image, none is running when the loop head zeroes
\* the buffer, and while an image is rendered every earlier image of the job
\* has been assembled and has its pose record.
ImagesSequential ==
    /\ \A t \in tasks : t.im = i_img
    /\ pc = "loop" => tasks = {}
    /\ (pc \in ImagePcs /\ par.jobs_modulo >= 1) =>
        \A k \in par.job_num .. i_img - 1 :
            (k - par.job_num) % par.jobs_modulo = 0 => k \in FrameImages

\* C3 witness: the pixel tasks of a later image run after an earlier image
\* has been assembled.
ImagesSequentialWitness ==
    /\ pc = "wait"
    /\ tasks # {}
    /\ Len(frames) >= 1
    /\ i_img \notin FrameImages

\* C4: within one render each clipping warning is emitted at most once.
WarnedOncePerRender == warnMin <= 1 /\ warnMax <= 1

\* C5: every RenderProjections invocation starts render with empty lat and
\* df, both warning flags false and no pixel task left over, and renders with
\* exactly one loaded object and at most one deformation.
RenderStartsClean ==
    entry = "api" =>
        /\ pc = "render" =>
            /\ lat = <<>>
            /\ df = <<>>
            /\ ~warned_clipping_min
            /\ ~warned_clipping_max
            /\ tasks = {}
        /\ pc \in RenderPcs \ {"render"} => Len(lat) = 1 /\ Len(df) <= 1

\* C5 witness: a second invocation renders after a first one that loaded an
\* object and completed.
RenderStartsCleanWitness ==
    /\ entry = "api"
    /\ calls = 2
    /\ results = <<"success">>
    /\ pc = "wait"
    /\ Len(lat) = 1
    /\ Len(df) = 1

\* C6: a render invocation never runs forever: once started it completes or
\* the process aborts.
RenderTerminates == [](pc \in RenderPcs => <>(pc \notin RenderPcs))

\* C7: a descriptor that cannot be read or deserialized records no object
\* entry, not even a nil one.
FailedLoadRecordsNothing == \A n \in 1 .. Len(lat) : lat[n] # NilObj

\* C8: every RenderProjections invocation returns a result, success=true or
\* success=false with an error: the process does not end inside the call and
\* the call does not return a nil result.
FailedRenderReturnsError ==
    entry = "api" =>
        /\ pc \notin {"exited", "crashed"}
        /\ \A n \in 1 .. Len(results) : results[n] \in {"success", "error"}

\* C9: an integration method other than simple or hierarchical aborts the
\* process on every entry path.
UnknownIntegrationIsFatal ==
    requested \notin {"none", "simple", "hierarchical"} => pc = "exited"

\* C10: for num_images = n and jobs_modulo = m >= 1, job j renders exactly
\* the indices {i : 0 <= i < n, i mod m = j}, each once; over j = 0..m-1 these
\* sets are pairwise disjoint and their union is 0..n-1.
Rendered(j) == {shard.job[j].frames[k] : k \in 1 .. Len(shard.job[j].frames)}
ShardsPartitionImages ==
    /\ \A j \in DOMAIN shard.job :
        /\ Rendered(j) \subseteq {i \in 0 .. shard.n - 1 : i % shard.m = j}
        /\ Len(shard.job[j].frames) = Cardinality(Rendered(j))
        /\ shard.job[j].pc = "done" =>
            Rendered(j) = {i \in 0 .. shard.n - 1 : i % shard.m = j}
    /\ \A j, k \in DOMAIN shard.job : j # k => Rendered(j) \cap Rendered(k) = {}
    /\ (\A j \in DOMAIN shard.job : shard.job[j].pc = "done") =>
        UNION {Rendered(j) : j \in DOMAIN shard.job} = 0 .. shard.n - 1

\* C10 witness: the largest workload split over the largest number of jobs
\* has been rendered completely, every job having rendered some image.
ShardsPartitionWitness ==
    /\ shard.n = MaxShardImages
    /\ shard.m = MaxModulo
    /\ \A j \in DOMAIN shard.job : shard.job[j].pc = "done" /\ Rendered(j) # {}

\* C11: the pose manifest is written at most once per render, only after the
\* image loop has ended, and exactly once by a render that returns; what is
\* written holds one frame record per rendered image of the job, in ascending
\* image order, each with the matrix of its own image and the time label.
JobImages ==
    IF par.jobs_modulo = 0 THEN {}
    ELSE {i \in par.job_num .. par.num_images - 1 :
            (i - par.job_num) % par.jobs_modulo = 0}
ManifestHoldsEveryFrame ==
    /\ manifest <= 1
    /\ manifest = 1 => pc \notin RenderPcs
    /\ (pc = "done" \/ (pc = "idle" /\ Len(results) > 0
                        /\ results[Len(results)] = "success")) => manifest = 1
    /\ pc = "manifest" =>
        /\ FrameImages = JobImages
        /\ Len(frames) = Cardinality(JobImages)
        /\ \A k \in 1 .. Len(frames) - 1 : frames[k].image < frames[k + 1].image
        /\ \A k \in 1 .. Len(frames) :
            /\ frames[k].matrix = CameraPose(frames[k].image, par.num_images)
            /\ frames[k].time = par.time_label
        /\ \A k, l \in 1 .. Len(frames) :
            k # l => frames[k].matrix # frames[l].matrix

\* C11 witness: the manifest of a render of two images with a non-zero time
\* label is about to be written.
ManifestWitness ==
    /\ pc = "manifest"
    /\ Len(frames) = 2
    /\ par.time_label = 1

RECURSIVE SumOfChildren(_, _, _)
SumOfChildren(objs, p, n) ==
    IF n = 0 THEN 0 ELSE SumOfChildren(objs, p, n - 1) + Density(objs[n], p)
PositiveChildren(objs, p) == {i \in 1 .. Len(objs) : Density(objs[i], p) > 0}
CollectionSumsOrFirstHit ==
    (probe.st = "return" /\ probe.obj.type = "object_collection") =>
        LET objs == probe.obj.objects
            sum == SumOfChildren(objs, probe.p, Len(objs))
            pos == PositiveChildren(objs, probe.p)
        IN  IF ~probe.obj.greedy
            THEN probe.out = (IF sum < 0 THEN 0
                              ELSE IF sum > DensityUnit THEN DensityUnit ELSE sum)
            ELSE IF pos = {} THEN probe.out = 0
            ELSE \E i \in pos : /\ \A k \in pos : i <= k
                                /\ probe.out = Density(objs[i], probe.p)

\* C13 witness: a greedy collection whose first child is negative at the
\* point has returned the density of its second child.
CollectionWitness ==
    /\ probe.st = "return"
    /\ probe.obj.type = "object_collection"
    /\ probe.obj.greedy
    /\ Len(probe.obj.objects) = 2
    /\ Density(probe.obj.objects[1], probe.p) < 0
    /\ probe.out > 0

\* C14: the density returned by a collection, and by a tessellated field
\* built on one, lies in [0, 1] at every point, for every child list and
\* both values of the greedy flag.
CompositeDensityInUnitRange ==
    (/\ probe.st = "return"
     /\ probe.obj.type \in {"object_collection", "tessellated_obj_coll"}) =>
        (0 <= probe.out /\ probe.out <= DensityUnit)

SeqMin(v) == CHOOSE m \in {v[i] : i \in DOMAIN v} : \A i \in DOMAIN v : m <= v[i]
SeqMax(v) == CHOOSE m \in {v[i] : i \in DOMAIN v} : \A i \in DOMAIN v : m >= v[i]
AxisShifts(l, a) ==
    LET n == (l.hi[a] - l.lo[a]) \div (l.uc.hi[a] - l.uc.lo[a]) IN -n .. n
CellShifts(l) == AxisShifts(l, 1) \X AxisShifts(l, 2) \X AxisShifts(l, 3)
TessellationIsPeriodic ==
    (probe.st = "return" /\ probe.obj.type = "tessellated_obj_coll") =>
        LET l == probe.obj
        IN  /\ Outside(l, probe.p) => probe.out = 0
            /\ ~Outside(l, probe.p) =>
                \A k \in CellShifts(l) :
                    LET q == [a \in 1 .. 3 |->
                                probe.p[a] + k[a] * (l.uc.hi[a] - l.uc.lo[a])]
                    IN  ~Outside(l, q) => TessellatedDensity(l, q) = probe.out

\* C16 witness: a tessellated field is positive at a point with a negative
\* coordinate that has a periodic image inside the outer box.
TessellationWitness ==
    /\ probe.st = "return"
    /\ probe.obj.type = "tessellated_obj_coll"
    /\ probe.out > 0
    /\ probe.p[1] < 0
    /\ ~Outside(probe.obj, [probe.p EXCEPT
            ![1] = @ + (probe.obj.uc.hi[1] - probe.obj.uc.lo[1])])

\* The left-endpoint Riemann sum of the density at the positions
\* smin + k*step below smax.
RECURSIVE SumOver(_, _)
SumOver(r, S) ==
    IF S = {} THEN 0
    ELSE LET x == CHOOSE y \in S : TRUE IN RayDensity(r, x) + SumOver(r, S \ {x})
LeftSamples(r, step) == {x \in r.smin .. r.smax - 1 : (x - r.smin) % step = 0}
CeilDiv(a, b) == (a + b - 1) \div b

Transitions(r) ==
    {t \in r.smin + 1 .. r.smax : RayDensity(r, t - 1) # RayDensity(r, t)}
BinaryLongRuns(r, DS) ==
    /\ \E c \in {RayDensity(r, s) : s \in r.smin .. r.smax} \cup {1} :
        c > 0 /\ \A s \in r.smin .. r.smax : RayDensity(r, s) \in {0, c}
    /\ RayDensity(r, r.smin) = 0
    /\ RayDensity(r, r.smax) = 0
    /\ \A t \in Transitions(r) : t - r.smin >= DS /\ r.smax - t >= DS
    /\ \A t, u \in Transitions(r) : t < u => u - t >= DS
    /\ (r.smax - r.smin) % DS = 0
HierarchicalMatchesSimpleOnBinary ==
    (/\ probe.st = "return"
     /\ probe.method = "hierarchical"
     /\ BinaryLongRuns(probe.ray, probe.step)) =>
        probe.T = SimpleSum(probe.ray, probe.step \div RefineFactor).T

\* C18 witness: hierarchical integration has refined a coarse step around an
\* edge of the object that lies between two coarse samples.
HierarchicalMatchesWitness ==
    /\ probe.st = "return"
    /\ probe.method = "hierarchical"
    /\ BinaryLongRuns(probe.ray, probe.step)
    /\ \E t \in Transitions(probe.ray) : (t - probe.ray.smin) % probe.step # 0
    /\ probe.T > probe.ray.flat_field

\* C19 as stated: a ray through empty space over a window of length L
\* accumulates the attenuation flat_field * L.
EmptyRay(r) == \A s \in r.smin .. r.smax : RayDensity(r, s) = 0
EmptyRayAccumulatesFlatFieldTimesLength ==
    (probe.st = "return" /\ EmptyRay(probe.ray)) =>
        probe.T = probe.ray.flat_field * (probe.ray.smax - probe.ray.smin)

\* C19, amended: the flat field is the initial value of the attenuation sum
\* under both methods: T is flat_field plus the sum accumulated with a flat
\* field of 0, and a ray through empty space accumulates flat_field whatever
\* the length of the window.
SumWithoutFlatField ==
    LET r == [probe.ray EXCEPT !.flat_field = 0]
    IN  IF probe.method = "simple" THEN SimpleSum(r, probe.step).T
        ELSE HierSum(r, probe.step)
FlatFieldIsInitialSum ==
    probe.st = "return" =>
        /\ probe.T = probe.ray.flat_field + SumWithoutFlatField
        /\ EmptyRay(probe.ray) => probe.T = probe.ray.flat_field

\* C19 witness: hierarchical integration through empty space over the longest
\* window with a positive flat field.
FlatFieldWitness ==
    /\ probe.st = "return"
    /\ probe.method = "hierarchical"
    /\ EmptyRay(probe.ray)
    /\ probe.ray.flat_field > 0
    /\ probe.ray.smax - probe.ray.smin = MaxCoarse * CoarseStep

\* C20: every pixel value is a transmitted intensity in [0, 1]: the
\* attenuation sum T of every ray is >= 0.
PixelIntensityInUnitRange ==
    probe.st = "return" =>
        /\ probe.T >= 0
        /\ 0 <= probe.out /\ probe.out <= UnitIntensity

\* C21 as stated: with one rigid deformation u loaded, the density of the
\* scene at p is the density of the undeformed object at p - u.
RigidShiftsSceneBackwards ==
    (probe.st = "done" /\ probe.given /\ probe.dfl[1].type = "rigid") =>
        probe.out = Density(probe.obj, VSub(probe.p, probe.dfl[1].displacements))
                        * density_multiplier

\* C21, amended: the density of the scene at p is the density of the
\* undeformed object at p + u (the point is remapped x <- x + u before the
\* density is evaluated).
RigidRemapsQueryPoint ==
    (probe.st = "done" /\ probe.given /\ probe.dfl[1].type = "rigid") =>
        /\ probe.q = [a \in 1 .. 3 |-> probe.p[a] + probe.dfl[1].displacements[a]]
        /\ probe.out = Density(probe.obj, probe.q) * density_multiplier

\* C21 witness: with u = (1,0,0) a point outside the object has the density
\* of the point inside the object it is remapped to.
RigidRemapWitness ==
    /\ probe.st = "done"
    /\ probe.given
    /\ probe.dfl[1].type = "rigid"
    /\ probe.dfl[1].displacements = <<1, 0, 0>>
    /\ Density(probe.obj, probe.p) = 0
    /\ probe.out > 0

\* C22 as stated: creating an object from the descriptor its own ToMap
\* produced succeeds and gives an object with the same field values, a
\* collection's greedy flag and the order of its children included.
ObjectSurvivesRoundTrip ==
    probe.st = "objreloaded" =>
        /\ probe.res = "ok"
        /\ probe.created = probe.from

\* C23 as stated: NewDeformation applied to the descriptor a deformation's
\* own ToMap produced succeeds and gives a deformation with the same field
\* values.
DeformationSurvivesRoundTrip ==
    probe.st = "reloaded" =>
        /\ probe.res = "ok"
        /\ probe.created = probe.from

\* C24: a descriptor whose type is missing, is not a string or is not a
\* recognised name makes NewDeformation and NewObject return an error and a
\* nil result; nothing is created from it.
UnknownTypeIsErrorAndNil ==
    LET t == Get(probe.data, "type")
        Unknown(names) == t[1] # "string" \/ t[2] \notin names
    IN  /\ (/\ probe.st \notin {"file", "nofile", "objfile", "objloaded", "stepped",
                                "objreloaded", "reloaded"}
            /\ "given" \in DOMAIN probe
            /\ probe.given
            /\ Unknown({"gaussian", "affine", "linear", "rigid", "sigmoid", "composed"}))
           => (probe.st = "rejected" /\ probe.created = NilEntity)
        /\ (/\ probe.st = "objloaded"
            /\ Unknown({"sphere", "cube", "box", "cylinder", "parallelepiped", "gyroid",
                        "object_collection", "tessellated_obj_coll", "voxel_grid"}))
           => (probe.err /\ probe.latl = <<NilEntity>>)

\* C24 witness: a deformation file of the unknown type "torus" and an object
\* file without a type have been refused with a nil result.
UnknownTypeWitness ==
    \/ /\ probe.st = "rejected"
       /\ Get(probe.data, "type") = Go("string", "torus")
       /\ probe.created = NilEntity
    \/ /\ probe.st = "objloaded"
       /\ "type" \notin DOMAIN probe.data
       /\ probe.err

\* C25 as stated: loading a deformation descriptor and applying what was
\* accepted to a point never ends in an out-of-range access, a panic or a
\* fatal abort (short or missing lists and bad directions are refused with an
\* error at load time).
AcceptedDeformationIsTotal ==
    ("given" \in DOMAIN probe /\ probe.given) => probe.st \notin {"panic", "fatal"}

\* C27: a composed deformation maps p through its children in list order,
\* each child receiving the point the previous one returned; with no
\* children p is returned unchanged; the children are those of the
\* descriptor, in the descriptor's order.
ComposedAppliesInListOrder ==
    (probe.st = "done" /\ probe.given /\ probe.dfl[1].type = "composed") =>
        LET ds == probe.dfl[1].deformations
            items == probe.data.deformations[2]
            pts[i \in 0 .. Len(ds)] ==
                IF i = 0 THEN probe.p ELSE Apply(ds[i], pts[i - 1]).val
        IN  /\ Len(ds) = Len(items)
            /\ \A i \in 1 .. Len(ds) : ds[i] = NewDeformation(items[i][2]).val
            /\ probe.q = pts[Len(ds)]

\* C27 witness: a rigid shift followed by a linear stretch, which do not
\* commute, has been applied to a point where the two orders differ.
ComposedOrderWitness ==
    /\ probe.st = "done"
    /\ probe.given
    /\ probe.dfl[1].type = "composed"
    /\ Len(probe.dfl[1].deformations) = 2
    /\ probe.dfl[1].deformations[1].type = "rigid"
    /\ probe.dfl[1].deformations[2].type = "linear"
    /\ probe.q # Apply(probe.dfl[1].deformations[1],
                       Apply(probe.dfl[1].deformations[2], probe.p).val).val

\* C28 as stated: for every object the loader accepted, MinFeatureSize and
\* the step MinFeatureSize/3 derived from it are positive and finite.
StepIsPositiveAndFinite ==
    probe.st = "stepped" => (probe.ds > 0 /\ probe.ds < Infinity)

\* C26 as stated: hierarchical integration re-samples a coarse bracket at
\* the fine step if and only if the density is zero at exactly one of the
\* bracket's two boundary points, the first bracket (left = smin) included.
RefinedIffBoundaryDensitiesDiffer ==
    (probe.st = "return" /\ probe.method = "hierarchical") =>
        \A k \in DOMAIN probe.brackets :
            probe.brackets[k].refined =
                ((RayDensity(probe.ray, probe.brackets[k].left) = 0)
                    # (RayDensity(probe.ray, probe.brackets[k].right) = 0))

ImageIsFunctionOfInputs ==
    pc = "assemble" =>
        \A c \in Cells(par.res) :
            LET r == SceneRay(lat, df, RayIndex(c[1], c[2], par.res))
            IN  img[c] = IF integrate = "simple" THEN integrate_along_ray(r, par.ds)
                         ELSE integrate_hierarchical(r, par.ds)

\* C30 witness: an image of several pixels has passed the barrier after pixel
\* tasks raced on a clipping-warning flag, more than one of them warning.
ImageAfterRaceWitness ==
    /\ pc = "assemble"
    /\ par.res > 1
    /\ warned_clipping_min \/ warned_clipping_max
    /\ warnMin > 1 \/ warnMax > 1

====
